---- MODULE Spec2Model ----
(***************************************************************************)
(* Lease extraction pipeline: response parsing with recovery               *)
(* (stage3_extraction), the auto-correction and validation engine          *)
(* (stage4_validation) and the orchestrator (runPipeline).                 *)
(*                                                                         *)
(* Texts are sequences of lexemes (tokens); numbers are exact rationals    *)
(* (JNumQ(57, 50) is 1.14); file names are character sequences.            *)
(***************************************************************************)
EXTENDS Integers, Sequences, FiniteSets, TLC

(***************************************************************************)
(* JavaScript / JSON values.  Every value is a record of the same shape so *)
(* that any two values can be compared.                                    *)
(***************************************************************************)
JV(t, n, s, items, props) ==
  [t |-> t, n |-> n, d |-> 1, s |-> s, items |-> items, props |-> props]

Undef == JV("undef", 0, "", <<>>, <<>>)

Null == JV("null", 0, "", <<>>, <<>>)

NaN == JV("nan", 0, "", <<>>, <<>>)

JBool(b) == JV("bool", IF b THEN 1 ELSE 0, "", <<>>, <<>>)

JNum(n) == JV("num", n, "", <<>>, <<>>)

\* the number p/q, q > 0, in lowest terms
JNumQ(p, q) == [JV("num", p, "", <<>>, <<>>) EXCEPT !.d = q]

\* the number 1e308
JBig == JV("num", 1, "1e308", <<>>, <<>>)

JStr(s) == JV("str", 0, s, <<>>, <<>>)

JArr(items) == JV("arr", 0, "", items, <<>>)

JObj(props) == JV("obj", 0, "", <<>>, props)

\* a string that is a piece of the response text: the lexemes toks, as
\* captured ("<raw>") or with the first and the last character removed
\* ("<sliced>")
JText(how, toks) == JV("str", 0, how, toks, <<>>)

\* JavaScript truthiness ( !v is ~Truthy(v) )
Truthy(v) ==
  CASE v.t \in {"undef", "null", "nan"} -> FALSE
    [] v.t = "bool" -> v.n = 1
    [] v.t = "num" -> v.n # 0
    [] v.t = "str" -> v.s # ""
    [] OTHER -> TRUE

\* a ?? b
Coalesce(a, b) == IF a.t \in {"undef", "null"} THEN b ELSE a

\* a || b
OrElse(a, b) == IF Truthy(a) THEN a ELSE b

\* property read o.key : the last member named key of an object, undefined
\* on every other value that allows property reads
RECURSIVE GetFrom(_, _, _)
GetFrom(props, key, i) ==
  IF i = 0 THEN Undef
  ELSE IF props[i].k = key THEN props[i].v
  ELSE GetFrom(props, key, i - 1)

Get(o, key) == IF o.t = "obj" THEN GetFrom(o.props, key, Len(o.props)) ELSE Undef

(***************************************************************************)
(* Lexemes of a response text.                                             *)
(***************************************************************************)
Tok(t, n, s) == JV(t, n, s, <<>>, <<>>)

\* a code fence: three backquotes
FENCE == Tok("fence", 0, "")

\* the word json right after an opening fence
TAG == Tok("tag", 0, "json")

WS == Tok("ws", 0, " ")

LBRACK == Tok("[", 0, "")

RBRACK == Tok("]", 0, "")

LBRACE == Tok("{", 0, "")

RBRACE == Tok("}", 0, "")

COMMA == Tok(",", 0, "")

COLON == Tok(":", 0, "")

TStr(s) == Tok("str", 0, s)

\* a quoted string whose n-th character is its first comma, closing brace
\* or closing bracket
TStrC(s, n) == Tok("str", n, s)

TNum(n) == Tok("num", n, "")

TNumQ(p, q) == [Tok("num", p, "") EXCEPT !.d = q]

TLit(s) == Tok("lit", 0, s)

TJunk(s) == Tok("junk", 0, s)

RECURSIVE SkipWs(_, _)
SkipWs(toks, i) ==
  IF i > Len(toks) \/ toks[i].t # "ws" THEN i ELSE SkipWs(toks, i + 1)

RECURSIVE SkipWsBack(_, _)
SkipWsBack(toks, i) ==
  IF i < 1 \/ toks[i].t # "ws" THEN i ELSE SkipWsBack(toks, i - 1)

\* String.prototype.trim
Trim(toks) ==
  LET a == SkipWs(toks, 1)
      b == SkipWsBack(toks, Len(toks))
  IN IF a > b THEN <<>> ELSE SubSeq(toks, a, b)

(***************************************************************************)
(* JSON.parse over lexemes.  A result is [ok, v, i, pos]: the value and    *)
(* the index after it, or the index of the offending lexeme.               *)
(***************************************************************************)
PFail(p) == [ok |-> FALSE, v |-> Undef, i |-> p, pos |-> p]

POk(v, i) == [ok |-> TRUE, v |-> v, i |-> i, pos |-> 0]

LitValue(s) ==
  CASE s = "null" -> Null
    [] s = "true" -> JBool(TRUE)
    [] OTHER -> JBool(FALSE)

RECURSIVE PValue(_, _), PElems(_, _, _), PMembers(_, _, _)
PValue(toks, i0) ==
  LET i == SkipWs(toks, i0) IN
  IF i > Len(toks) THEN PFail(i)
  ELSE LET k == toks[i] IN
    CASE k.t = "str" -> POk(JStr(k.s), i + 1)
      [] k.t = "num" -> POk(JNumQ(k.n, k.d), i + 1)
      [] k.t = "lit" -> POk(LitValue(k.s), i + 1)
      [] k.t = "[" ->
           LET j == SkipWs(toks, i + 1) IN
           IF j <= Len(toks) /\ toks[j].t = "]" THEN POk(JArr(<<>>), j + 1)
           ELSE PElems(toks, i + 1, <<>>)
      [] k.t = "{" ->
           LET j == SkipWs(toks, i + 1) IN
           IF j <= Len(toks) /\ toks[j].t = "}" THEN POk(JObj(<<>>), j + 1)
           ELSE PMembers(toks, i + 1, <<>>)
      [] OTHER -> PFail(i)

PElems(toks, i, acc) ==
  LET r == PValue(toks, i) IN
  IF ~r.ok THEN r
  ELSE LET j == SkipWs(toks, r.i) IN
    IF j > Len(toks) THEN PFail(j)
    ELSE IF toks[j].t = "," THEN PElems(toks, j + 1, Append(acc, r.v))
    ELSE IF toks[j].t = "]" THEN POk(JArr(Append(acc, r.v)), j + 1)
    ELSE PFail(j)

PMembers(toks, i, acc) ==
  LET k == SkipWs(toks, i) IN
  IF k > Len(toks) \/ toks[k].t # "str" THEN PFail(k)
  ELSE LET c == SkipWs(toks, k + 1) IN
    IF c > Len(toks) \/ toks[c].t # ":" THEN PFail(c)
    ELSE LET r == PValue(toks, c + 1) IN
      IF ~r.ok THEN r
      ELSE LET j == SkipWs(toks, r.i)
               m == Append(acc, [k |-> toks[k].s, v |-> r.v])
           IN IF j > Len(toks) THEN PFail(j)
              ELSE IF toks[j].t = "," THEN PMembers(toks, j + 1, m)
              ELSE IF toks[j].t = "}" THEN POk(JObj(m), j + 1)
              ELSE PFail(j)

JSONParse(toks) ==
  LET r == PValue(toks, 1) IN
  IF ~r.ok THEN r
  ELSE LET j == SkipWs(toks, r.i) IN
       IF j <= Len(toks) THEN PFail(j) ELSE r

(***************************************************************************)
(* parseExtractionResponse: fence stripping, strict parse, regex fallback, *)
(* placeholder filling.                                                    *)
(***************************************************************************)
Metric(name, value, doc, blurb, flags) ==
  [metric |-> name, value |-> value, override |-> Null,
   source_document |-> doc, source_blurb |-> blurb, flags |-> flags]

Err(kind, msg, pos, names) ==
  [kind |-> kind, msg |-> msg, pos |-> pos, names |-> names]

expectedFields ==
  << "property", "tenant_name", "suite", "document_type", "suite_sf",
     "suite_pro_rata_share", "lease_start_date", "lease_term_months",
     "lease_expiration_date", "free_rent_months", "starting_rent_monthly",
     "rent_escalations", "escalation_type", "escalation_frequency",
     "lease_type", "security_deposit", "renewal_option",
     "renewal_option_term_months", "renewal_option_start_mos_prior",
     "renewal_option_exp_mos_prior", "termination_option",
     "termination_option_start", "termination_option_expiration",
     "rofo_option", "rofr_option", "purchase_option", "_flags" >>

FallbackNote == "Extracted via fallback parser"

PlaceholderNote == "Field not extracted - requires manual entry"

\* the least element of a non-empty set of indices
MinOf(S) == CHOOSE m \in S : \A x \in S : m <= x

\* the first fence at or after lexeme i, 0 when there is none
NextFence(toks, i) ==
  LET S == {j \in i..Len(toks) : toks[j].t = "fence"} IN
  IF S = {} THEN 0 ELSE MinOf(S)

\* responseText.match(/```(?:json)?\s*([\s\S]*?)```/): the capture group of
\* the leftmost match, [found |-> FALSE] when the text has no two fences
FenceMatch(toks) ==
  LET open == NextFence(toks, 1)
      close == IF open = 0 THEN 0 ELSE NextFence(toks, open + 1)
  IN IF close = 0 THEN [found |-> FALSE, group |-> <<>>]
     ELSE LET a == IF toks[open + 1].t = "tag" THEN open + 2 ELSE open + 1
              b == SkipWs(toks, a)
          IN [found |-> TRUE, group |-> SubSeq(toks, b, close - 1)]

jsonStrOf(responseText) ==
  LET jsonMatch == FenceMatch(responseText) IN
  IF jsonMatch.found THEN jsonMatch.group ELSE responseText

\* rawMetrics.map((raw) => ({...}))
RawToMetric(raw, sourceDocument) ==
  Metric(Get(raw, "metric"), Get(raw, "value"), sourceDocument,
         OrElse(Get(raw, "source_blurb"), JStr("")),
         OrElse(Get(raw, "flags"), JArr(<<>>)))

\* the try block: [threw, msg, pos, metrics]
StrictParse(responseText, sourceDocument) ==
  LET pr == JSONParse(Trim(jsonStrOf(responseText))) IN
  IF ~pr.ok
  THEN [threw |-> TRUE, msg |-> "SyntaxError", pos |-> pr.pos, metrics |-> <<>>]
  ELSE
    LET parsed == pr.v IN
    IF parsed.t = "null"
    THEN [threw |-> TRUE, msg |-> "TypeError", pos |-> 0, metrics |-> <<>>]
    ELSE
      LET rawMetrics == OrElse(Get(parsed, "metrics"), parsed) IN
      IF rawMetrics.t # "arr"
      THEN [threw |-> TRUE, msg |-> "Expected metrics array in response",
            pos |-> 0, metrics |-> <<>>]
      ELSE IF \E k \in 1..Len(rawMetrics.items) : rawMetrics.items[k].t = "null"
      THEN [threw |-> TRUE, msg |-> "TypeError", pos |-> 0, metrics |-> <<>>]
      ELSE [threw |-> FALSE, msg |-> "", pos |-> 0,
            metrics |-> [k \in 1..Len(rawMetrics.items) |->
                           RawToMetric(rawMetrics.items[k], sourceDocument)]]

\* "key"\s*:  at lexeme i : the index after the colon, 0 when it does not match
KeyColon(toks, i, key) ==
  IF i > Len(toks) \/ toks[i].t # "str" \/ toks[i].s # key THEN 0
  ELSE LET c == SkipWs(toks, i + 1) IN
       IF c <= Len(toks) /\ toks[c].t = ":" THEN c + 1 ELSE 0

\* ([^,}\]]+) from lexeme i : the index of the last lexeme of the run; the
\* run ends inside a quoted string that holds one of the three characters
RECURSIVE RunEnd(_, _)
RunEnd(toks, i) ==
  IF i > Len(toks) \/ toks[i].t \in {",", "}", "]"} THEN i - 1
  ELSE IF toks[i].t = "str" /\ toks[i].n > 0 THEN i
  ELSE RunEnd(toks, i + 1)

\* the text captured by the run from lexeme a: of a quoted string the run
\* ends in, only the opening quote and the characters before the n-th
Captured(toks, a) ==
  LET e == RunEnd(toks, a) IN
  IF e >= a /\ toks[e].t = "str" /\ toks[e].n > 0
  THEN Append(SubSeq(toks, a, e - 1), Tok("strcut", toks[e].n, toks[e].s))
  ELSE SubSeq(toks, a, e)

\* "value"\s*:\s*([^,}\]]+) at lexeme v : the key, its colon and a non-empty run
ValueAt(toks, v) ==
  LET a == KeyColon(toks, v, "value") IN a # 0 /\ RunEnd(toks, a) >= a

\* the value coercion of the fallback path, on the trimmed capture
CoerceValue(cap) ==
  IF Len(cap) = 1 /\ cap[1].t = "lit" THEN LitValue(cap[1].s)
  ELSE IF Len(cap) >= 1 /\ cap[1].t = "str"
       THEN IF Len(cap) = 1 THEN JStr(cap[1].s) ELSE JText("<sliced>", cap)
  ELSE IF Len(cap) >= 1 /\ cap[1].t = "strcut" THEN JText("<sliced>", cap)
  ELSE IF cap = <<>> THEN JNum(0)
  ELSE IF Len(cap) = 1 /\ cap[1].t = "num" THEN JNumQ(cap[1].n, cap[1].d)
  ELSE IF Len(cap) = 1 /\ cap[1].t \in {"junk", "tag"} THEN JStr(cap[1].s)
  ELSE JText("<raw>", cap)

\* "metric"\s*:\s*"([^"]+)" at lexeme i : the index of the name, 0 when it
\* does not match
NameAt(toks, i) ==
  LET a == KeyColon(toks, i, "metric")
      n == IF a = 0 THEN 0 ELSE SkipWs(toks, a)
  IN IF a # 0 /\ n <= Len(toks) /\ toks[n].t = "str" /\ toks[n].s # ""
     THEN n ELSE 0

\* the for loop over responseText.matchAll(/"metric"...): heads are the
\* lexemes where a "metric" key with a name starts, values the lexemes where
\* a "value" key with a non-empty run starts; each match pairs the first head
\* at or after lexeme i with the first value after its name, and the next
\* match is searched after the end of that run
RECURSIVE FallbackScan(_, _, _, _, _, _)
FallbackScan(toks, heads, values, i, sourceDocument, acc) ==
  IF \A h \in heads : h < i THEN acc
  ELSE
    LET n == NameAt(toks, MinOf({h \in heads : h >= i})) IN
    IF \A v \in values : v <= n THEN acc
    ELSE
      LET a == KeyColon(toks, MinOf({v \in values : v > n}), "value") IN
      FallbackScan(toks, heads, values, RunEnd(toks, a) + 1, sourceDocument,
        Append(acc,
          Metric(JStr(toks[n].s),
                 CoerceValue(Trim(Captured(toks, a))),
                 sourceDocument, JStr(""),
                 JArr(<< JStr(FallbackNote) >>))))

FallbackParse(responseText, sourceDocument) ==
  FallbackScan(responseText,
               {h \in 1..Len(responseText) : NameAt(responseText, h) # 0},
               {v \in 1..Len(responseText) : ValueAt(responseText, v)},
               1, sourceDocument, <<>>)

HasField(metrics, f) == \E k \in 1..Len(metrics) : metrics[k].metric = JStr(f)

\* the expected-fields check forgetting the last row of the schema
missingFieldsOf_Short(metrics) ==
  SelectSeq(SubSeq(expectedFields, 1, Len(expectedFields) - 1),
            LAMBDA f : ~HasField(metrics, f))

missingFieldsOf(metrics) ==
  SelectSeq(expectedFields, LAMBDA f : ~HasField(metrics, f))

Placeholder(field, sourceDocument) ==
  Metric(JStr(field), Null, sourceDocument, JStr(""),
         JArr(<< JStr(PlaceholderNote) >>))

\* the catch block swallowing the parse error
Recovered_Silent(strict, responseText, sourceDocument) ==
  IF strict.threw
  THEN [metrics |-> FallbackParse(responseText, sourceDocument),
        errors |-> <<>>]
  ELSE [metrics |-> strict.metrics, errors |-> <<>>]

\* the catch block: the error string and the records the regex recovers
Recovered(strict, responseText, sourceDocument) ==
  IF strict.threw
  THEN [metrics |-> FallbackParse(responseText, sourceDocument),
        errors |-> << Err("JSON parse error", strict.msg, strict.pos, <<>>) >>]
  ELSE [metrics |-> strict.metrics, errors |-> <<>>]

\* the expected-fields check: placeholders for the missing fields
WithPlaceholders(got, missingFields, sourceDocument) ==
  IF Len(missingFields) > 0
  THEN [metrics |-> got.metrics \o
                    [k \in 1..Len(missingFields) |->
                       Placeholder(missingFields[k], sourceDocument)],
        errors |-> Append(got.errors,
                          Err("Missing fields", "", 0, missingFields))]
  ELSE got

CheckExpected(got, sourceDocument) ==
  WithPlaceholders(got, missingFieldsOf(got.metrics), sourceDocument)

parseExtractionResponse(responseText, sourceDocument) ==
  CheckExpected(
    Recovered(StrictParse(responseText, sourceDocument), responseText,
              sourceDocument),
    sourceDocument)

(***************************************************************************)
(* JavaScript numbers, as exact extended rationals: a finite p/q in lowest *)
(* terms (q > 0), NaN, +Infinity or -Infinity.                             *)
(***************************************************************************)
AbsI(x) == IF x < 0 THEN -x ELSE x

SgnI(x) == IF x < 0 THEN -1 ELSE IF x = 0 THEN 0 ELSE 1

RECURSIVE Gcd(_, _)
Gcd(a, b) == IF b = 0 THEN a ELSE Gcd(b, a % b)

Fin(p, q) ==
  LET g == Gcd(AbsI(p), AbsI(q)) IN
  [k |-> "fin", p |-> (SgnI(q) * p) \div g, q |-> AbsI(q) \div g]

XNaN == [k |-> "nan", p |-> 0, q |-> 1]

\* the double 1e308 (sign > 0) or -1e308: finite, and more than a twelfth
\* of Number.MAX_VALUE in magnitude
XBig(sign) == [k |-> "big", p |-> IF sign < 0 THEN -1 ELSE 1, q |-> 1]

XInf(sign) == [k |-> IF sign < 0 THEN "ninf" ELSE "pinf", p |-> 0, q |-> 1]

XSign(x) ==
  CASE x.k \in {"fin", "big"} -> SgnI(x.p)
    [] x.k = "pinf" -> 1
    [] OTHER -> -1

\* a product with 1e308: it overflows to an infinity when the other factor
\* is 2 or more in magnitude, as every factor of the model is
BigMul(x, y) ==
  LET o == IF x.k = "big" THEN y ELSE x IN
  CASE o.k \in {"pinf", "ninf"} -> XInf(XSign(x) * XSign(y))
    [] o.k = "fin" /\ AbsI(o.p) >= 2 * o.q -> XInf(XSign(x) * XSign(y))

XMul(x, y) ==
  IF x.k = "nan" \/ y.k = "nan" THEN XNaN
  ELSE IF x.k = "big" \/ y.k = "big" THEN BigMul(x, y)
  ELSE IF x.k # "fin" \/ y.k # "fin"
       THEN IF XSign(x) * XSign(y) = 0 THEN XNaN ELSE XInf(XSign(x) * XSign(y))
  ELSE LET g1 == Gcd(AbsI(x.p), y.q)
           g2 == Gcd(AbsI(y.p), x.q)
       IN Fin((x.p \div g1) * (y.p \div g2), (x.q \div g2) * (y.q \div g1))

XDiv(x, y) ==
  IF x.k = "nan" \/ y.k = "nan" THEN XNaN
  ELSE IF x.k = "big" \/ y.k = "big"
       THEN CASE x.k \in {"pinf", "ninf"} -> XInf(XSign(x) * XSign(y))
              [] x.k = "fin" /\ x.p = 0 -> Fin(0, 1)
  ELSE IF x.k # "fin"
       THEN IF y.k # "fin" THEN XNaN
            ELSE XInf(XSign(x) * (IF y.p < 0 THEN -1 ELSE 1))
  ELSE IF y.k # "fin" THEN Fin(0, 1)
  ELSE IF y.p = 0 THEN (IF x.p = 0 THEN XNaN ELSE XInf(SgnI(x.p)))
  ELSE XMul(x, Fin(y.q, y.p))

XNeg(x) ==
  CASE x.k = "fin" -> Fin(-x.p, x.q)
    [] x.k = "big" -> XBig(-x.p)
    [] x.k = "pinf" -> XInf(-1)
    [] x.k = "ninf" -> XInf(1)
    [] OTHER -> XNaN

XAdd(x, y) ==
  IF x.k = "nan" \/ y.k = "nan" THEN XNaN
  ELSE IF x.k \in {"pinf", "ninf"} /\ y.k = "big" THEN x
  ELSE IF y.k \in {"pinf", "ninf"} /\ x.k = "big" THEN y
  ELSE IF x.k # "fin"
       THEN IF y.k # "fin" /\ y.k # x.k THEN XNaN ELSE x
  ELSE IF y.k # "fin" THEN y
  ELSE LET g == Gcd(x.q, y.q)
       IN Fin(x.p * (y.q \div g) + y.p * (x.q \div g), (x.q \div g) * y.q)

XSub(x, y) == XAdd(x, XNeg(y))

\* Math.abs
XAbs(x) == IF x.k = "fin" THEN Fin(AbsI(x.p), x.q)
           ELSE IF x.k = "big" THEN XBig(1)
           ELSE IF x.k = "nan" THEN XNaN ELSE XInf(1)

\* x < y ; every comparison with NaN is false
XLt(x, y) ==
  IF x.k = "nan" \/ y.k = "nan" THEN FALSE
  ELSE IF x.k = "fin" /\ y.k = "fin"
       THEN LET g == Gcd(x.q, y.q) IN x.p * (y.q \div g) < y.p * (x.q \div g)
  ELSE IF x.k = "big" \/ y.k = "big"
       THEN LET ord(z) == CASE z.k = "ninf" -> -2
                            [] z.k = "pinf" -> 2
                            [] z.k = "big" -> z.p
                            [] OTHER -> 0
            IN ord(x) < ord(y)
  ELSE IF x.k = y.k THEN FALSE
  ELSE x.k = "ninf" \/ y.k = "pinf"

XEq(x, y) == x.k # "nan" /\ x = y

XGt(x, y) == XLt(y, x)

XLe(x, y) == XLt(x, y) \/ XEq(x, y)

XGe(x, y) == XLt(y, x) \/ XEq(x, y)

\* ToNumber.  The strings of the model are not numerals: every non-empty
\* string converts to NaN.
ToNumber(v) ==
  CASE v.t = "num" /\ v.s = "1e308" -> XBig(v.n)
    [] v.t = "num" -> Fin(v.n, v.d)
    [] v.t = "bool" -> Fin(v.n, 1)
    [] v.t = "null" -> Fin(0, 1)
    [] v.t = "str" -> IF v.s = "" THEN Fin(0, 1) ELSE XNaN
    [] v.t = "arr" ->
         IF v.items = <<>> THEN Fin(0, 1)
         ELSE IF Len(v.items) = 1 /\ v.items[1].t = "num"
              THEN Fin(v.items[1].n, v.items[1].d)
         ELSE XNaN
    [] OTHER -> XNaN

(***************************************************************************)
(* Stage 4: validation checks and auto-correction.                         *)
(***************************************************************************)
\* m.metric === name
Named(m, name) == m.metric = JStr(name)

\* the getValue closure: metrics.find(...) then m?.override ?? m?.value
getValue(metrics, name) ==
  LET S == {k \in 1..Len(metrics) : Named(metrics[k], name)} IN
  IF S = {} THEN Undef
  ELSE LET m == metrics[MinOf(S)] IN Coalesce(m.override, m.value)

VResult(check, status, detail) ==
  [check |-> check, status |-> status, detail |-> detail]

\* (startingRent * 12) / suiteSf
AnnualRsf(startingRent, suiteSf) ==
  XDiv(XMul(ToNumber(startingRent), Fin(12, 1)), ToNumber(suiteSf))

InBand(x, lo, hi) == XGe(x, lo) /\ XLe(x, hi)

validateRentMath(metrics) ==
  LET suiteSf == getValue(metrics, "suite_sf")
      monthlyRent == getValue(metrics, "starting_rent_monthly")
      impliedAnnualRsf == AnnualRsf(monthlyRent, suiteSf)
      recalculatedMonthly ==
        XDiv(XMul(ToNumber(suiteSf), impliedAnnualRsf), Fin(12, 1))
  IN IF ~Truthy(suiteSf) \/ ~Truthy(monthlyRent)
     THEN VResult("rent_math", "SKIP", "Missing suite_sf or starting_rent_monthly")
     ELSE IF XGt(XAbs(XSub(recalculatedMonthly, ToNumber(monthlyRent))), Fin(1, 1))
     THEN VResult("rent_math", "FAIL", "Rent math inconsistent")
     ELSE VResult("rent_math", "PASS", "SF x rate / 12")

DefaultBuildingSf == 138130

\* the proportionate-share check skipping on a zero share as well
validateProRata_SkipsZero(metrics, buildingSf) ==
  LET suiteSf == getValue(metrics, "suite_sf")
      proRata == getValue(metrics, "suite_pro_rata_share")
      expected == XDiv(ToNumber(suiteSf), Fin(buildingSf, 1))
  IN IF ~Truthy(suiteSf) \/ ~Truthy(proRata)
     THEN VResult("pro_rata", "SKIP", "Missing suite_sf or suite_pro_rata_share")
     ELSE IF XGt(XAbs(XSub(expected, ToNumber(proRata))), Fin(2, 1000))
     THEN VResult("pro_rata", "FAIL", "Expected share differs")
     ELSE VResult("pro_rata", "PASS", "suite / building")

validateProRata(metrics, buildingSf) ==
  LET suiteSf == getValue(metrics, "suite_sf")
      proRata == getValue(metrics, "suite_pro_rata_share")
      expected == XDiv(ToNumber(suiteSf), Fin(buildingSf, 1))
  IN IF ~Truthy(suiteSf) \/ proRata.t \in {"null", "undef"}
     THEN VResult("pro_rata", "SKIP", "Missing suite_sf or suite_pro_rata_share")
     ELSE IF XGt(XAbs(XSub(expected, ToNumber(proRata))), Fin(2, 1000))
     THEN VResult("pro_rata", "FAIL", "Expected share differs")
     ELSE VResult("pro_rata", "PASS", "suite / building")

\* the date strings of the model: year, month (1..12), day, and whether the
\* text is a date-only ISO form (read as UTC midnight) or another form
\* (read as local midnight).  Every other string is an Invalid Date.
DateTable(s) ==
  CASE s = "2024-09-01" -> [valid |-> TRUE, y |-> 2024, m |-> 9, d |-> 1, iso |-> TRUE]
    [] s = "2027-10-31" -> [valid |-> TRUE, y |-> 2027, m |-> 10, d |-> 31, iso |-> TRUE]
    [] s = "2027-11-30" -> [valid |-> TRUE, y |-> 2027, m |-> 11, d |-> 30, iso |-> TRUE]
    [] s = "2027-12-31" -> [valid |-> TRUE, y |-> 2027, m |-> 12, d |-> 31, iso |-> TRUE]
    [] s = "2028-01-31" -> [valid |-> TRUE, y |-> 2028, m |-> 1, d |-> 31, iso |-> TRUE]
    [] s = "2028-02-28" -> [valid |-> TRUE, y |-> 2028, m |-> 2, d |-> 28, iso |-> TRUE]
    [] s = "2024-01-15" -> [valid |-> TRUE, y |-> 2024, m |-> 1, d |-> 15, iso |-> TRUE]
    [] s = "2025-01-14" -> [valid |-> TRUE, y |-> 2025, m |-> 1, d |-> 14, iso |-> TRUE]
    [] s = "2025-08-31" -> [valid |-> TRUE, y |-> 2025, m |-> 8, d |-> 31, iso |-> TRUE]
    [] s = "2027-05-14" -> [valid |-> TRUE, y |-> 2027, m |-> 5, d |-> 14, iso |-> TRUE]
    [] s = "September 1, 2024" -> [valid |-> TRUE, y |-> 2024, m |-> 9, d |-> 1, iso |-> FALSE]
    [] OTHER -> [valid |-> FALSE, y |-> 0, m |-> 0, d |-> 0, iso |-> FALSE]

IsLeap(y) == (y % 4 = 0 /\ y % 100 # 0) \/ y % 400 = 0

\* days of month m0 (0..11) of year y
DaysIn(y, m0) ==
  IF m0 = 1 THEN (IF IsLeap(y) THEN 29 ELSE 28)
  ELSE IF m0 \in {3, 5, 8, 10} THEN 30 ELSE 31

LDate(y, m0, d) == [valid |-> TRUE, y |-> y, m0 |-> m0, d |-> d]

InvalidDate == [valid |-> FALSE, y |-> 0, m0 |-> 0, d |-> 0]

PrevDay(dt) ==
  IF dt.d > 1 THEN LDate(dt.y, dt.m0, dt.d - 1)
  ELSE IF dt.m0 > 0 THEN LDate(dt.y, dt.m0 - 1, DaysIn(dt.y, dt.m0 - 1))
  ELSE LDate(dt.y - 1, 11, 31)

\* new Date(v), as the local calendar date (getFullYear, getMonth, getDate)
\* in time zone tz: "utc" (or any zone at or ahead of UTC) or "west" (a zone
\* behind UTC, where UTC midnight is the evening of the day before).
\* Numbers are milliseconds since the epoch, less than a day in the model.
NewDate(v, tz) ==
  CASE v.t = "str" /\ v.items = <<>> ->
         LET e == DateTable(v.s) IN
         IF ~e.valid THEN InvalidDate
         ELSE IF e.iso /\ tz = "west" THEN PrevDay(LDate(e.y, e.m - 1, e.d))
         ELSE LDate(e.y, e.m - 1, e.d)
    [] v.t \in {"num", "bool"} ->
         IF v.n < 0 THEN LDate(1969, 11, 31)
         ELSE IF tz = "west" THEN LDate(1969, 11, 31)
         ELSE LDate(1970, 0, 1)
    [] v.t = "null" ->
         IF tz = "west" THEN LDate(1969, 11, 31) ELSE LDate(1970, 0, 1)
    [] OTHER -> InvalidDate

\* floor division and modulus for a possibly negative dividend
FloorDiv(a, b) == IF a >= 0 THEN a \div b ELSE -((-a + b - 1) \div b)

\* Date fields (y, month index, d) normalised as the Date object does: the
\* month index carries into the year, days past the end of the month carry
\* into the next month
Normalised(y, mi, d) ==
  LET y1 == y + FloorDiv(mi, 12)
      m1 == mi - 12 * FloorDiv(mi, 12)
      n1 == DaysIn(y1, m1)
  IN IF d <= n1 THEN LDate(y1, m1, d)
     ELSE IF m1 = 11 THEN LDate(y1 + 1, 0, d - n1)
     ELSE LDate(y1, m1 + 1, d - n1)

\* the argument of setMonth: expectedExp.getMonth() + termMonths, as an
\* integer month index, or none when it is NaN.  + concatenates when
\* termMonths is a string, and no string of the model yields a numeral.
MonthArg(m0, termMonths) ==
  CASE termMonths.t = "num" ->
         [ok |-> TRUE,
          k |-> m0 + SgnI(termMonths.n) * (AbsI(termMonths.n) \div termMonths.d)]
    [] termMonths.t = "bool" -> [ok |-> TRUE, k |-> m0 + termMonths.n]
    [] OTHER -> [ok |-> FALSE, k |-> 0]

\* expectedExp after setMonth(getMonth() + termMonths) and setDate(0)
ExpectedExp(start, termMonths) ==
  LET arg == MonthArg(start.m0, termMonths) IN
  IF ~start.valid \/ ~arg.ok THEN InvalidDate
  ELSE LET moved == Normalised(start.y, arg.k, start.d)
       IN IF moved.m0 = 0 THEN LDate(moved.y - 1, 11, 31)
          ELSE LDate(moved.y, moved.m0 - 1, DaysIn(moved.y, moved.m0 - 1))

validateDateArithmetic(metrics, tz) ==
  LET startDate == getValue(metrics, "lease_start_date")
      termMonths == getValue(metrics, "lease_term_months")
      expirationDate == getValue(metrics, "lease_expiration_date")
      start == NewDate(startDate, tz)
      expiration == NewDate(expirationDate, tz)
      expectedExp == ExpectedExp(start, termMonths)
  IN IF ~Truthy(startDate) \/ ~Truthy(termMonths) \/ ~Truthy(expirationDate)
     THEN VResult("date_arithmetic", "SKIP", "Missing date(s) or term")
     ELSE IF \/ ~expiration.valid
             \/ ~expectedExp.valid
             \/ expiration.y # expectedExp.y
             \/ AbsI(expiration.m0 - expectedExp.m0) > 1
     THEN VResult("date_arithmetic", "FAIL", "start + term months differs")
     ELSE VResult("date_arithmetic", "PASS", "start + term months = expiration")

\* the consistency check flagging a dollar kind in the 5% band as well
validateEscalationConsistency_BothBands(metrics) ==
  LET escalationValue == getValue(metrics, "rent_escalations")
      escalationType == getValue(metrics, "escalation_type")
      startingRent == getValue(metrics, "starting_rent_monthly")
      suiteSf == getValue(metrics, "suite_sf")
      annualRsf == AnnualRsf(startingRent, suiteSf)
      looksLikeDollar == XGe(ToNumber(escalationValue), Fin(1, 2))
      impliedPercentFromDollar == XDiv(ToNumber(escalationValue), annualRsf)
      dollarIsLikelyRound ==
        \/ InBand(impliedPercentFromDollar, Fin(25, 1000), Fin(35, 1000))
        \/ InBand(impliedPercentFromDollar, Fin(45, 1000), Fin(55, 1000))
  IN IF \/ ~Truthy(escalationValue) \/ ~Truthy(escalationType)
        \/ ~Truthy(startingRent) \/ ~Truthy(suiteSf)
     THEN VResult("escalation_consistency", "SKIP", "Missing escalation data")
     ELSE IF escalationType = JStr("percentage") /\ looksLikeDollar
     THEN VResult("escalation_consistency", "FLAG",
                  "Classified as percentage but value looks like dollar amount")
     ELSE IF /\ escalationType \in {JStr("fixed_dollar_per_rsf"), JStr("step_schedule")}
             /\ dollarIsLikelyRound
     THEN VResult("escalation_consistency", "FLAG",
                  "Consider reclassifying as percentage")
     ELSE VResult("escalation_consistency", "PASS", "Escalation: type = value")

validateEscalationConsistency(metrics) ==
  LET escalationValue == getValue(metrics, "rent_escalations")
      escalationType == getValue(metrics, "escalation_type")
      startingRent == getValue(metrics, "starting_rent_monthly")
      suiteSf == getValue(metrics, "suite_sf")
      annualRsf == AnnualRsf(startingRent, suiteSf)
      looksLikeDollar == XGe(ToNumber(escalationValue), Fin(1, 2))
      isLikelyThreePercent ==
        InBand(ToNumber(escalationValue), Fin(29, 1000), Fin(31, 1000))
      impliedPercentFromDollar == XDiv(ToNumber(escalationValue), annualRsf)
      dollarIsLikelyThreePercent ==
        InBand(impliedPercentFromDollar, Fin(25, 1000), Fin(35, 1000))
  IN IF \/ ~Truthy(escalationValue) \/ ~Truthy(escalationType)
        \/ ~Truthy(startingRent) \/ ~Truthy(suiteSf)
     THEN VResult("escalation_consistency", "SKIP", "Missing escalation data")
     ELSE IF escalationType = JStr("percentage") /\ looksLikeDollar
     THEN VResult("escalation_consistency", "FLAG",
                  "Classified as percentage but value looks like dollar amount")
     ELSE IF /\ escalationType \in {JStr("fixed_dollar_per_rsf"), JStr("step_schedule")}
             /\ dollarIsLikelyThreePercent
     THEN VResult("escalation_consistency", "FLAG",
                  "Consider reclassifying as percentage with value 0.03")
     ELSE IF escalationType = JStr("percentage") /\ isLikelyThreePercent
     THEN VResult("escalation_consistency", "PASS", "annual escalation confirmed")
     ELSE VResult("escalation_consistency", "PASS", "Escalation: type = value")

\* the deposit check flagging the bounds 0.5 and 6.0 themselves
validateDepositSanity_OpenBounds(metrics) ==
  LET deposit == getValue(metrics, "security_deposit")
      monthlyRent == getValue(metrics, "starting_rent_monthly")
      ratio == XDiv(ToNumber(deposit), ToNumber(monthlyRent))
  IN IF ~Truthy(deposit) \/ ~Truthy(monthlyRent)
     THEN VResult("deposit_sanity", "SKIP", "Missing deposit or rent")
     ELSE IF XLe(ratio, Fin(1, 2)) \/ XGe(ratio, Fin(6, 1))
     THEN VResult("deposit_sanity", "FLAG", "outside typical 0.5x-6x range")
     ELSE VResult("deposit_sanity", "PASS", "deposit / monthly rent")

validateDepositSanity(metrics) ==
  LET deposit == getValue(metrics, "security_deposit")
      monthlyRent == getValue(metrics, "starting_rent_monthly")
      ratio == XDiv(ToNumber(deposit), ToNumber(monthlyRent))
  IN IF ~Truthy(deposit) \/ ~Truthy(monthlyRent)
     THEN VResult("deposit_sanity", "SKIP", "Missing deposit or rent")
     ELSE IF XLt(ratio, Fin(1, 2)) \/ XGt(ratio, Fin(6, 1))
     THEN VResult("deposit_sanity", "FLAG", "outside typical 0.5x-6x range")
     ELSE VResult("deposit_sanity", "PASS", "deposit / monthly rent")

runValidation(metrics, tz) ==
  << validateRentMath(metrics),
     validateProRata(metrics, DefaultBuildingSf),
     validateDateArithmetic(metrics, tz),
     validateEscalationConsistency(metrics),
     validateDepositSanity(metrics) >>

\* the analysis without the 5% band
analyzeEscalation_ThreePercentOnly(startingRent, suiteSf, currentValue, currentType) ==
  LET annualRsf == AnnualRsf(startingRent, suiteSf)
      impliedPercent == XDiv(ToNumber(currentValue), annualRsf)
  IN IF XGe(ToNumber(currentValue), Fin(1, 2))
     THEN IF InBand(impliedPercent, Fin(25, 1000), Fin(35, 1000))
          THEN [suggestedType |-> JStr("percentage"),
                suggestedValue |-> JNumQ(3, 100), confidence |-> "high",
                reasoning |-> "approx 3% annual escalation"]
          ELSE [suggestedType |-> JStr("fixed_dollar_per_rsf"),
                suggestedValue |-> currentValue, confidence |-> "medium",
                reasoning |-> "appears to be a fixed dollar escalation"]
     ELSE IF XLt(ToNumber(currentValue), Fin(1, 5))
     THEN [suggestedType |-> JStr("percentage"),
           suggestedValue |-> currentValue, confidence |-> "high",
           reasoning |-> "is a valid percentage escalation"]
     ELSE [suggestedType |-> currentType,
           suggestedValue |-> currentValue, confidence |-> "low",
           reasoning |-> "Unable to determine escalation pattern with confidence"]

\* the analysis taking every value of 0.5 or more as a dollar amount
analyzeEscalation_NoBands(startingRent, suiteSf, currentValue, currentType) ==
  IF XGe(ToNumber(currentValue), Fin(1, 2))
  THEN [suggestedType |-> JStr("fixed_dollar_per_rsf"),
        suggestedValue |-> currentValue, confidence |-> "medium",
        reasoning |-> "appears to be a fixed dollar escalation"]
  ELSE IF XLt(ToNumber(currentValue), Fin(1, 5))
  THEN [suggestedType |-> JStr("percentage"),
        suggestedValue |-> currentValue, confidence |-> "high",
        reasoning |-> "is a valid percentage escalation"]
  ELSE [suggestedType |-> currentType,
        suggestedValue |-> currentValue, confidence |-> "low",
        reasoning |-> "Unable to determine escalation pattern with confidence"]

analyzeEscalation(startingRent, suiteSf, currentValue, currentType) ==
  LET annualRsf == AnnualRsf(startingRent, suiteSf)
      impliedPercent == XDiv(ToNumber(currentValue), annualRsf)
  IN IF XGe(ToNumber(currentValue), Fin(1, 2))
     THEN IF InBand(impliedPercent, Fin(25, 1000), Fin(35, 1000))
          THEN [suggestedType |-> JStr("percentage"),
                suggestedValue |-> JNumQ(3, 100), confidence |-> "high",
                reasoning |-> "approx 3% annual escalation"]
          ELSE IF InBand(impliedPercent, Fin(45, 1000), Fin(55, 1000))
          THEN [suggestedType |-> JStr("percentage"),
                suggestedValue |-> JNumQ(1, 20), confidence |-> "high",
                reasoning |-> "approx 5% annual escalation"]
          ELSE [suggestedType |-> JStr("fixed_dollar_per_rsf"),
                suggestedValue |-> currentValue, confidence |-> "medium",
                reasoning |-> "appears to be a fixed dollar escalation"]
     ELSE IF XLt(ToNumber(currentValue), Fin(1, 5))
     THEN [suggestedType |-> JStr("percentage"),
           suggestedValue |-> currentValue, confidence |-> "high",
           reasoning |-> "is a valid percentage escalation"]
     ELSE [suggestedType |-> currentType,
           suggestedValue |-> currentValue, confidence |-> "low",
           reasoning |-> "Unable to determine escalation pattern with confidence"]

\* whether [...flags] can be evaluated: arrays and strings are iterable
Iterable(flags) == flags.t \in {"arr", "str"}

\* [...m.flags, note] ; the characters of a string flags value are kept as
\* one element standing for them
WithNote(flags, note) ==
  JArr((IF flags.t = "arr" THEN flags.items
        ELSE << JV("str", 0, "<characters>", << flags >>, <<>>) >>)
       \o << note >>)

\* a note made of a fixed text and the values quoted in it
Note(text, quoted) == JV("str", 0, text, quoted, <<>>)

\* blurb.includes("triple-net") || ... on the lower-cased blurb, for the
\* strings of the model
HasTripleNet(blurb) ==
  blurb \in {"a triple-net lease", "This is a Triple Net lease", "NNN",
             "rent is net net net"}

NNNNote == "Auto-corrected to NNN: source text contains explicit triple-net language"

\* the callback comparing the extracted value, not the effective one
LeaseTypeFix_ExtractedValue(m) ==
  IF ~(Named(m, "document_type") \/ Named(m, "lease_type"))
  THEN [threw |-> FALSE, m |-> m]
  ELSE
    LET blurb == OrElse(m.source_blurb, JStr("")) IN
    IF blurb.t # "str" THEN [threw |-> TRUE, m |-> m]
    ELSE IF HasTripleNet(blurb.s) /\ m.value # JStr("NNN")
    THEN IF ~Iterable(m.flags) THEN [threw |-> TRUE, m |-> m]
         ELSE [threw |-> FALSE,
               m |-> [m EXCEPT !.override = JStr("NNN"),
                               !.flags = WithNote(m.flags, JStr(NNNNote))]]
    ELSE [threw |-> FALSE, m |-> m]

\* what the map callback does to one record: [threw, m]
LeaseTypeFix(m) ==
  IF ~(Named(m, "document_type") \/ Named(m, "lease_type"))
  THEN [threw |-> FALSE, m |-> m]
  ELSE
    LET blurb == OrElse(m.source_blurb, JStr(""))
        currentValue == Coalesce(m.override, m.value)
    IN IF blurb.t # "str" THEN [threw |-> TRUE, m |-> m]
       ELSE IF HasTripleNet(blurb.s) /\ currentValue # JStr("NNN")
       THEN IF ~Iterable(m.flags) THEN [threw |-> TRUE, m |-> m]
            ELSE [threw |-> FALSE,
                  m |-> [m EXCEPT !.override = JStr("NNN"),
                                  !.flags = WithNote(m.flags, JStr(NNNNote))]]
       ELSE [threw |-> FALSE, m |-> m]

\* [threw, metrics] : threw when the callback throws a TypeError on some record
applyLeaseTypeCorrection(metrics) ==
  LET fixed == [k \in 1..Len(metrics) |-> LeaseTypeFix(metrics[k])] IN
  [threw |-> \E k \in 1..Len(metrics) : fixed[k].threw,
   metrics |-> [k \in 1..Len(metrics) |-> fixed[k].m]]

\* the escalation callback writing the suggestion over the extracted value
EscalationFix_SetsValue(m, analysis, currentType) ==
  IF Named(m, "rent_escalations")
  THEN IF ~Iterable(m.flags) THEN [threw |-> TRUE, m |-> m]
       ELSE [threw |-> FALSE,
             m |-> [m EXCEPT !.value = analysis.suggestedValue,
                             !.flags = WithNote(m.flags,
                                Note("Auto-corrected:", << JStr(analysis.reasoning) >>))]]
  ELSE IF Named(m, "escalation_type")
  THEN IF ~Iterable(m.flags) THEN [threw |-> TRUE, m |-> m]
       ELSE [threw |-> FALSE,
             m |-> [m EXCEPT !.value = analysis.suggestedType,
                             !.flags = WithNote(m.flags,
                                Note("Auto-corrected from/to",
                                     << currentType, analysis.suggestedType >>))]]
  ELSE [threw |-> FALSE, m |-> m]

EscalationFix(m, analysis, currentType) ==
  IF Named(m, "rent_escalations")
  THEN IF ~Iterable(m.flags) THEN [threw |-> TRUE, m |-> m]
       ELSE [threw |-> FALSE,
             m |-> [m EXCEPT !.override = analysis.suggestedValue,
                             !.flags = WithNote(m.flags,
                                Note("Auto-corrected:", << JStr(analysis.reasoning) >>))]]
  ELSE IF Named(m, "escalation_type")
  THEN IF ~Iterable(m.flags) THEN [threw |-> TRUE, m |-> m]
       ELSE [threw |-> FALSE,
             m |-> [m EXCEPT !.override = analysis.suggestedType,
                             !.flags = WithNote(m.flags,
                                Note("Auto-corrected from/to",
                                     << currentType, analysis.suggestedType >>))]]
  ELSE [threw |-> FALSE, m |-> m]

\* the corrector applying every high-confidence analysis, whether or not it
\* differs from the current type and value
applyEscalationCorrection_Always(metrics) ==
  LET startingRent == getValue(metrics, "starting_rent_monthly")
      suiteSf == getValue(metrics, "suite_sf")
      currentValue == getValue(metrics, "rent_escalations")
      currentType == getValue(metrics, "escalation_type")
      analysis == analyzeEscalation(startingRent, suiteSf, currentValue, currentType)
      fixed == [k \in 1..Len(metrics) |->
                  EscalationFix(metrics[k], analysis, currentType)]
  IN IF \/ ~Truthy(startingRent) \/ ~Truthy(suiteSf)
        \/ ~Truthy(currentValue) \/ ~Truthy(currentType)
     THEN [threw |-> FALSE, metrics |-> metrics]
     ELSE IF analysis.confidence = "high"
     THEN [threw |-> \E k \in 1..Len(metrics) : fixed[k].threw,
           metrics |-> [k \in 1..Len(metrics) |-> fixed[k].m]]
     ELSE [threw |-> FALSE, metrics |-> metrics]

applyEscalationCorrection(metrics) ==
  LET startingRent == getValue(metrics, "starting_rent_monthly")
      suiteSf == getValue(metrics, "suite_sf")
      currentValue == getValue(metrics, "rent_escalations")
      currentType == getValue(metrics, "escalation_type")
      analysis == analyzeEscalation(startingRent, suiteSf, currentValue, currentType)
      fixed == [k \in 1..Len(metrics) |->
                  EscalationFix(metrics[k], analysis, currentType)]
  IN IF \/ ~Truthy(startingRent) \/ ~Truthy(suiteSf)
        \/ ~Truthy(currentValue) \/ ~Truthy(currentType)
     THEN [threw |-> FALSE, metrics |-> metrics]
     ELSE IF /\ analysis.confidence = "high"
             /\ \/ analysis.suggestedType # currentType
                \/ analysis.suggestedValue # currentValue
     THEN [threw |-> \E k \in 1..Len(metrics) : fixed[k].threw,
           metrics |-> [k \in 1..Len(metrics) |-> fixed[k].m]]
     ELSE [threw |-> FALSE, metrics |-> metrics]

(***************************************************************************)
(* Model responses: what provider.complete may return as response.content. *)
(* A response is a list of field objects in the format the prompt asks     *)
(* for, possibly preceded by the full 27-field list, as an array or under  *)
(* a "metrics" key, possibly damaged, possibly wrapped in a code fence.    *)
(***************************************************************************)
MaxItems == 2

ItemToks(name, valToks, extra) ==
  << LBRACE, TStr("metric"), COLON, TStr(name), COMMA, TStr("value"), COLON >>
    \o valToks \o extra \o << RBRACE >>

BlurbToks(b) == << COMMA, TStr("source_blurb"), COLON, b >>

FlagsToks(f) == << COMMA, TStr("flags"), COLON >> \o f

\* the value the full list gives each field
FullValue(name) ==
  CASE name = "suite_sf" -> TNum(3000)
    [] name = "starting_rent_monthly" -> TNum(9500)
    [] name = "rent_escalations" -> TNumQ(57, 50)
    [] name = "escalation_type" -> TStr("fixed_dollar_per_rsf")
    [] name = "document_type" -> TStr("FSG")
    [] name = "lease_type" -> TStr("FSG")
    [] name = "security_deposit" -> TNum(17279)
    [] name = "renewal_option" -> TLit("false")
    [] name = "tenant_name" -> TStr("Acme")
    [] OTHER -> TLit("null")

RECURSIVE Joined(_)
Joined(items) ==
  IF items = <<>> THEN <<>>
  ELSE IF Len(items) = 1 THEN items[1]
  ELSE items[1] \o << COMMA >> \o Joined(Tail(items))

FullItems ==
  [k \in 1..Len(expectedFields) |->
     ItemToks(expectedFields[k], << FullValue(expectedFields[k]) >>,
              BlurbToks(TStr("per the lease")))]

ItemPool ==
  { ItemToks("suite_sf", << TNum(2497) >>, <<>>),
    ItemToks("document_type", << TStr("FSG") >>,
             BlurbToks(TStr("a triple-net lease"))
               \o FlagsToks(<< LBRACK, TStr("check"), RBRACK >>)),
    ItemToks("foo", << TLit("true") >>, <<>>),
    << LBRACE, TStr("metric"), COLON, TStr("tenant_name"), RBRACE >>,
    ItemToks("lease_type", << TStr("NNN") >>, BlurbToks(TNum(42))),
    ItemToks("property", << TStrC("1 Main St, Suite 2", 10) >>, <<>>),
    << TLit("null") >> }

ItemLists == UNION { [1..n -> ItemPool] : n \in 0..MaxItems }

Shapes == {"array", "object"}

Damages == {"none", "drop_last", "cut_closers", "prose"}

Wraps == {"none", "fence", "fence_json"}

RECURSIVE DropClosers(_)
DropClosers(toks) ==
  IF toks # <<>> /\ toks[Len(toks)].t \in {"]", "}"}
  THEN DropClosers(SubSeq(toks, 1, Len(toks) - 1))
  ELSE toks

Shaped(shape, items) ==
  IF shape = "array" THEN << LBRACK >> \o Joined(items) \o << RBRACK >>
  ELSE << LBRACE, TStr("metrics"), COLON, LBRACK >> \o Joined(items)
         \o << RBRACK, RBRACE >>

Damaged(damage, toks) ==
  CASE damage = "drop_last" -> SubSeq(toks, 1, Len(toks) - 1)
    [] damage = "cut_closers" -> DropClosers(toks)
    [] damage = "prose" -> << TJunk("Here is the extraction:"), WS >> \o toks
    [] OTHER -> toks

Wrapped(wrap, toks) ==
  CASE wrap = "fence" -> << FENCE, WS >> \o toks \o << WS, FENCE >>
    [] wrap = "fence_json" -> << FENCE, TAG, WS >> \o toks \o << WS, FENCE >>
    [] OTHER -> toks

\* the content of a described response, before any fence is put around it
ContentOf(d) ==
  Damaged(d.damage,
          Shaped(d.shape, (IF d.full THEN FullItems ELSE <<>>) \o d.items))

ResponseOf(d) == Wrapped(d.wrap, ContentOf(d))

ResponseDescs ==
  [items : ItemLists, full : BOOLEAN, shape : Shapes, damage : Damages,
   wrap : Wraps]

\* file names and short texts, as character sequences
FnLease ==
  << "S", "u", "i", "t", "e", "2", "0", "0", "_", "L", "e", "a", "s", "e",
  ".", "p", "d", "f" >>

FnAmendment ==
  << "S", "u", "i", "t", "e", "2", "0", "0", "_", "A", "m", "e", "n", "d",
  "m", "e", "n", "t", "_", "2", "0", "2", "4", ".", "p", "d", "f" >>

FnAddendum ==
  << "A", "D", "D", "E", "N", "D", "U", "M", ".", "p", "d", "f" >>

PathInAmendmentsDir ==
  << "a", "m", "e", "n", "d", "m", "e", "n", "t", "s", "/", "S", "u", "i",
  "t", "e", "2", "0", "0", "_", "L", "e", "a", "s", "e", ".", "p", "d", "f"
  >>

PdfPaths == {FnLease, FnAmendment, FnAddendum, PathInAmendmentsDir}

Uppers ==
  << "A", "B", "C", "D", "E", "F", "G", "H", "I", "J", "K", "L", "M", "N",
     "O", "P", "Q", "R", "S", "T", "U", "V", "W", "X", "Y", "Z" >>

Lowers ==
  << "a", "b", "c", "d", "e", "f", "g", "h", "i", "j", "k", "l", "m", "n",
     "o", "p", "q", "r", "s", "t", "u", "v", "w", "x", "y", "z" >>

Mapped(c, from, to) ==
  IF \E i \in 1..Len(from) : from[i] = c
  THEN to[CHOOSE i \in 1..Len(from) : from[i] = c]
  ELSE c

toLowerCase(str) == [i \in 1..Len(str) |-> Mapped(str[i], Uppers, Lowers)]

toUpperCase(str) == [i \in 1..Len(str) |-> Mapped(str[i], Lowers, Uppers)]

\* str.includes(needle)
Includes(str, needle) ==
  \E i \in 0..(Len(str) - Len(needle)) :
    SubSeq(str, i + 1, i + Len(needle)) = needle

\* str.trim()
TrimChars(str) ==
  LET S == {i \in 1..Len(str) : str[i] \notin {" ", "\n"}} IN
  IF S = {} THEN <<>>
  ELSE SubSeq(str, MinOf(S), CHOOSE m \in S : \A x \in S : x <= m)

\* path.basename
basename(path) ==
  LET S == {i \in 1..Len(path) : path[i] = "/"} IN
  IF S = {} THEN path
  ELSE SubSeq(path, (CHOOSE m \in S : \A x \in S : x <= m) + 1, Len(path))

\* isAmendment comparing case-sensitively
isAmendment_CaseSensitive(name) ==
  \/ Includes(name, << "a", "m", "e", "n", "d", "m", "e", "n", "t" >>)
  \/ Includes(name, << "a", "m", "e", "n", "d" >>)
  \/ Includes(name, << "a", "d", "d", "e", "n", "d", "u", "m" >>)
  \/ Includes(name, << "m", "o", "d", "i", "f", "i", "c", "a", "t", "i", "o", "n" >>)

isAmendment(filename) ==
  LET lower == toLowerCase(filename) IN
  \/ Includes(lower, << "a", "m", "e", "n", "d", "m", "e", "n", "t" >>)
  \/ Includes(lower, << "a", "m", "e", "n", "d" >>)
  \/ Includes(lower, << "a", "d", "d", "e", "n", "d", "u", "m" >>)
  \/ Includes(lower, << "m", "o", "d", "i", "f", "i", "c", "a", "t", "i", "o", "n" >>)

\* the parsing rule of detectLeaseType on the model's response.content
\* the classifier searching the trimmed response without upper-casing it
documentTypeOf_AsWritten(content) ==
  LET rawResponse == TrimChars(content) IN
  IF Includes(rawResponse, << "N", "N", "N" >>) THEN "NNN"
  ELSE IF Includes(rawResponse, << "F", "S", "G" >>) THEN "FSG"
  ELSE IF Includes(rawResponse, << "M", "G" >>) THEN "MG"
  ELSE IF Includes(rawResponse, << "I", "G" >>) THEN "IG"
  ELSE IF Includes(rawResponse, << "A", "N", "N" >>) THEN "ANN"
  ELSE "FSG"

documentTypeOf(content) ==
  LET rawResponse == toUpperCase(TrimChars(content)) IN
  IF Includes(rawResponse, << "N", "N", "N" >>) THEN "NNN"
  ELSE IF Includes(rawResponse, << "F", "S", "G" >>) THEN "FSG"
  ELSE IF Includes(rawResponse, << "M", "G" >>) THEN "MG"
  ELSE IF Includes(rawResponse, << "I", "G" >>) THEN "IG"
  ELSE IF Includes(rawResponse, << "A", "N", "N" >>) THEN "ANN"
  ELSE "FSG"

\* what the classification model may answer
ClassifierAnswers ==
  { << "N", "N", "N" >>, << " ", "m", "g", "\n" >>,
    << "O", "t", "h", "e", "r" >> }

\* what the extraction model may answer in a pipeline run
Desc(items, full, shape, damage, wrap) ==
  [items |-> items, full |-> full, shape |-> shape, damage |-> damage,
   wrap |-> wrap]

PipelineAnswers ==
  { Desc(<<>>, TRUE, "object", "none", "fence_json"),
    Desc(<<>>, TRUE, "array", "cut_closers", "none"),
    Desc(<<>>, FALSE, "array", "prose", "none"),
    Desc(<< ItemToks("document_type", << TStr("FSG") >>,
                     BlurbToks(TStr("a triple-net lease"))
                       \o FlagsToks(<< LBRACK, TStr("check"), RBRACK >>)) >>,
         FALSE, "object", "none", "none"),
    Desc(<< ItemToks("lease_type", << TStr("NNN") >>, BlurbToks(TNum(42))) >>,
         FALSE, "array", "none", "fence"),
    Desc(<< ItemToks("suite_sf", << TNum(2497) >>, <<>>), << TLit("null") >> >>,
         FALSE, "array", "none", "none"),
    Desc(<< ItemToks("foo", << TLit("true") >>, <<>>),
            ItemToks("suite_sf", << TNum(2497) >>, <<>>) >>,
         TRUE, "object", "none", "none"),
    Desc(<< ItemToks("suite_sf", << TNum(2497) >>, <<>>) >>,
         FALSE, "array", "cut_closers", "fence_json") }

DefaultMaxPages == 25

\* the page counts the renderer may return
PageCounts == {0, 1, 3, DefaultMaxPages + 1}

\* the maxPages option, when the caller gives one
MaxPagesGiven == 2

TimeZones == {"utc", "west"}

(***************************************************************************)
(* State.                                                                  *)
(***************************************************************************)
VARIABLES
  parseInput,        \* the response handed to parseExtractionResponse
  parseOutput,       \* its return value, once it has returned
  pdfPath,           \* runPipeline's argument
  options,           \* runPipeline's options
  tz,                \* the time zone of the process
  pc,                \* where the run is
  pages,             \* let pages
  documentType,      \* let documentType
  metrics,           \* let metrics
  model,             \* let model
  errors,            \* const errors
  validationResults, \* let validationResults
  calls,             \* the stage functions invoked so far, in order
  result,            \* what runPipeline returned or threw
  response,          \* detectLeaseType: what provider.complete returned
  typeResult,        \* detectLeaseType: its return value
  config,            \* let _config, the configuration singleton
  runs,              \* the runPipeline instances of one process
  state,             \* review page: useState state
  pipelineOutput,    \* review page: useState pipelineOutput
  error,             \* review page: useState error
  actionedMetrics,   \* review page: useState actionedMetrics
  requests,          \* review page: the fetches of /api/extract started so far
  stored,            \* submit route: the document written to the collection
  reviewed,          \* history: the fields the reviewer overrode and did not revert
  latest             \* history: the most recent upload that was not cancelled

otherVars ==
  << response, typeResult, config, runs, state, pipelineOutput, error,
     actionedMetrics, requests, stored, reviewed, latest >>

vars ==
  << parseInput, parseOutput, pdfPath, options, tz, pc, pages, documentType,
     metrics, model, errors, validationResults, calls, result, otherVars >>

pipelineVars ==
  << pdfPath, options, tz, pc, pages, documentType, metrics, model, errors,
     validationResults, calls, result >>

NotParsed == [done |-> FALSE, metrics |-> <<>>, errors |-> <<>>]

NoDesc == Desc(<<>>, FALSE, "array", "none", "none")

NoResult ==
  [kind |-> "none", filename |-> <<>>, reason |-> "", message |-> "",
   document_type |-> "", metrics |-> <<>>, validation_results |-> <<>>,
   page_count |-> 0, model |-> "", errors |-> <<>>]

Call(fn, pgs, type) == [fn |-> fn, pages |-> pgs, documentType |-> type]

OptionSets ==
  [forceDocumentType : {"", "NNN"}, skipExtraction : BOOLEAN,
   maxPages : {[given |-> FALSE, n |-> 0], [given |-> TRUE, n |-> MaxPagesGiven]}]

filename == basename(pdfPath)

\* no classifier call, no configuration loaded, no instance, no review page
Elsewhere ==
  /\ response = <<>>
  /\ typeResult = <<>>
  /\ config = <<>>
  /\ runs = <<>>
  /\ state = "idle"
  /\ pipelineOutput = <<>>
  /\ error = ""
  /\ actionedMetrics = {}
  /\ requests = <<>>
  /\ stored = <<>>
  /\ reviewed = {}
  /\ latest = 0

PipelineIdle ==
  /\ Elsewhere
  /\ pages = <<>>
  /\ documentType = ""
  /\ metrics = <<>>
  /\ model = ""
  /\ errors = <<>>
  /\ validationResults = <<>>
  /\ calls = <<>>
  /\ result = NoResult

(***************************************************************************)
(* parseExtractionResponse on its own.                                     *)
(***************************************************************************)
ParseInit ==
  /\ parseInput \in ResponseDescs
  /\ parseOutput = NotParsed
  /\ pdfPath = FnLease
  /\ options = [forceDocumentType |-> "", skipExtraction |-> FALSE,
                maxPages |-> [given |-> FALSE, n |-> 0]]
  /\ tz = "utc"
  /\ pc = "idle"
  /\ PipelineIdle

\* one call of parseExtractionResponse(response.content, sourceDocument)
Parse ==
  /\ ~parseOutput.done
  /\ LET r == parseExtractionResponse(ResponseOf(parseInput), filename) IN
     parseOutput' = [done |-> TRUE, metrics |-> r.metrics, errors |-> r.errors]
  /\ UNCHANGED << parseInput, pipelineVars, otherVars >>

ParseNext == Parse

SpecParse == ParseInit /\ [][ParseNext]_vars

(***************************************************************************)
(* runPipeline.                                                            *)
(***************************************************************************)
Init ==
  /\ parseInput = NoDesc
  /\ parseOutput = NotParsed
  /\ pdfPath \in PdfPaths
  /\ options \in OptionSets
  /\ tz \in TimeZones
  /\ pc = "start"
  /\ PipelineIdle

Throw(message) ==
  /\ result' = [NoResult EXCEPT !.kind = "thrown", !.message = message]
  /\ pc' = "done"

\* the amendment check, then the call of pdfToImages
Start ==
  /\ UNCHANGED otherVars
  /\ pc = "start"
  /\ IF isAmendment(filename)
     THEN /\ result' = [NoResult EXCEPT
                          !.kind = "skipped",
                          !.reason = "Amendment detected - amendment processing not yet implemented",
                          !.filename = filename]
          /\ pc' = "done"
          /\ UNCHANGED calls
     ELSE /\ calls' = Append(calls, Call("pdfToImages", <<>>, ""))
          /\ pc' = "stage1"
          /\ UNCHANGED result
  /\ UNCHANGED << parseInput, parseOutput, pdfPath, options, tz, pages,
                  documentType, metrics, model, errors, validationResults >>

\* pdfToImages throws
RenderFails ==
  /\ UNCHANGED otherVars
  /\ pc = "stage1"
  /\ Throw("pdfToImages failed")
  /\ UNCHANGED << parseInput, parseOutput, pdfPath, options, tz, pages,
                  documentType, metrics, model, errors, validationResults,
                  calls >>

\* pdfToImages returns n pages and all of them are kept
RenderReturns_NoLimit ==
  /\ UNCHANGED otherVars
  /\ pc = "stage1"
  /\ \E n \in PageCounts :
       LET rendered == [i \in 1..n |-> i]
       IN IF Len(rendered) = 0
          THEN /\ Throw("No pages extracted from PDF")
               /\ UNCHANGED pages
          ELSE /\ pages' = rendered
               /\ pc' = "stage2"
               /\ UNCHANGED result
  /\ UNCHANGED << parseInput, parseOutput, pdfPath, options, tz,
                  documentType, metrics, model, errors, validationResults,
                  calls >>

\* pdfToImages returns n pages; the zero-page check and the page limit
RenderReturns ==
  /\ UNCHANGED otherVars
  /\ pc = "stage1"
  /\ \E n \in PageCounts :
       LET rendered == [i \in 1..n |-> i]
           maxPages == IF options.maxPages.given THEN options.maxPages.n
                       ELSE DefaultMaxPages
       IN IF Len(rendered) = 0
          THEN /\ Throw("No pages extracted from PDF")
               /\ UNCHANGED pages
          ELSE /\ pages' = IF Len(rendered) > maxPages
                           THEN SubSeq(rendered, 1, maxPages)
                           ELSE rendered
               /\ pc' = "stage2"
               /\ UNCHANGED result
  /\ UNCHANGED << parseInput, parseOutput, pdfPath, options, tz,
                  documentType, metrics, model, errors, validationResults,
                  calls >>

\* stage 2: the forced type, or the call of detectLeaseType(pages[0])
Stage2 ==
  /\ UNCHANGED otherVars
  /\ pc = "stage2"
  /\ IF options.forceDocumentType # ""
     THEN /\ documentType' = options.forceDocumentType
          /\ pc' = "stage3"
          /\ UNCHANGED calls
     ELSE /\ calls' = Append(calls, Call("detectLeaseType", << pages[1] >>, ""))
          /\ pc' = "detecting"
          /\ UNCHANGED documentType
  /\ UNCHANGED << parseInput, parseOutput, pdfPath, options, tz, pages,
                  metrics, model, errors, validationResults, result >>

\* a failed classification call tried again
ClassifyFails_Retry ==
  /\ UNCHANGED otherVars
  /\ pc = "detecting"
  /\ pc' = "stage2"
  /\ UNCHANGED << parseInput, parseOutput, pdfPath, options, tz, pages,
                  documentType, metrics, model, errors, validationResults,
                  calls, result >>

\* the classification model call fails
ClassifyFails ==
  /\ UNCHANGED otherVars
  /\ pc = "detecting"
  /\ Throw("classification failed")
  /\ UNCHANGED << parseInput, parseOutput, pdfPath, options, tz, pages,
                  documentType, metrics, model, errors, validationResults,
                  calls >>

\* detectLeaseType returns
ClassifyReturns ==
  /\ UNCHANGED otherVars
  /\ pc = "detecting"
  /\ \E content \in ClassifierAnswers :
       documentType' = documentTypeOf(content)
  /\ pc' = "stage3"
  /\ UNCHANGED << parseInput, parseOutput, pdfPath, options, tz, pages,
                  metrics, model, errors, validationResults, calls, result >>

\* stage 3 calling extractLeaseData whatever the skip flag says
Stage3_AlwaysExtracts ==
  /\ UNCHANGED otherVars
  /\ pc = "stage3"
  /\ calls' = Append(calls, Call("extractLeaseData", pages, documentType))
  /\ pc' = "extracting"
  /\ UNCHANGED << parseInput, parseOutput, pdfPath, options, tz, pages,
                  documentType, metrics, model, errors, validationResults,
                  result >>

\* stage 3: skipped, or the call of extractLeaseData(pages, documentType, filename)
Stage3 ==
  /\ UNCHANGED otherVars
  /\ pc = "stage3"
  /\ IF options.skipExtraction
     THEN /\ pc' = "stage4"
          /\ UNCHANGED calls
     ELSE /\ calls' = Append(calls, Call("extractLeaseData", pages, documentType))
          /\ pc' = "extracting"
  /\ UNCHANGED << parseInput, parseOutput, pdfPath, options, tz, pages,
                  documentType, metrics, model, errors, validationResults,
                  result >>

\* the extraction model call fails
ExtractFails ==
  /\ UNCHANGED otherVars
  /\ pc = "extracting"
  /\ Throw("extraction failed")
  /\ UNCHANGED << parseInput, parseOutput, pdfPath, options, tz, pages,
                  documentType, metrics, model, errors, validationResults,
                  calls >>

\* the extraction model answers; extractLeaseData parses and returns
ExtractReturns ==
  /\ UNCHANGED otherVars
  /\ pc = "extracting"
  /\ \E d \in PipelineAnswers :
       LET extractionResult == parseExtractionResponse(ResponseOf(d), filename) IN
       /\ parseInput' = d
       /\ metrics' = extractionResult.metrics
       /\ errors' = errors \o extractionResult.errors
  /\ model' = "extraction-model"
  /\ pc' = "stage4"
  /\ UNCHANGED << parseOutput, pdfPath, options, tz, pages, documentType,
                  validationResults, calls, result >>

\* stage 4, first corrector (only with a non-empty record list)
Stage4LeaseType ==
  /\ UNCHANGED otherVars
  /\ pc = "stage4"
  /\ IF Len(metrics) > 0
     THEN LET r == applyLeaseTypeCorrection(metrics) IN
          /\ calls' = Append(calls, Call("applyLeaseTypeCorrection", <<>>, ""))
          /\ IF r.threw
             THEN Throw("TypeError") /\ UNCHANGED metrics
             ELSE metrics' = r.metrics /\ pc' = "stage4b" /\ UNCHANGED result
     ELSE /\ pc' = "return"
          /\ UNCHANGED << metrics, calls, result >>
  /\ UNCHANGED << parseInput, parseOutput, pdfPath, options, tz, pages,
                  documentType, model, errors, validationResults >>

\* the second corrector called and its return value dropped
Stage4Escalation_Discard ==
  /\ UNCHANGED otherVars
  /\ pc = "stage4b"
  /\ calls' = Append(calls, Call("applyEscalationCorrection", <<>>, ""))
  /\ pc' = "stage4c"
  /\ UNCHANGED << parseInput, parseOutput, pdfPath, options, tz, pages,
                  documentType, metrics, model, errors, validationResults,
                  result >>

\* stage 4, second corrector
Stage4Escalation ==
  /\ UNCHANGED otherVars
  /\ pc = "stage4b"
  /\ LET r == applyEscalationCorrection(metrics) IN
     /\ calls' = Append(calls, Call("applyEscalationCorrection", <<>>, ""))
     /\ IF r.threw
        THEN Throw("TypeError") /\ UNCHANGED metrics
        ELSE metrics' = r.metrics /\ pc' = "stage4c" /\ UNCHANGED result
  /\ UNCHANGED << parseInput, parseOutput, pdfPath, options, tz, pages,
                  documentType, model, errors, validationResults >>

\* stage 4, the validation checks
Stage4Validation ==
  /\ UNCHANGED otherVars
  /\ pc = "stage4c"
  /\ calls' = Append(calls, Call("runValidation", <<>>, ""))
  /\ validationResults' = runValidation(metrics, tz)
  /\ pc' = "return"
  /\ UNCHANGED << parseInput, parseOutput, pdfPath, options, tz, pages,
                  documentType, metrics, model, errors, result >>

\* the final return statement
Return ==
  /\ UNCHANGED otherVars
  /\ pc = "return"
  /\ result' = [NoResult EXCEPT
                  !.kind = "output",
                  !.filename = filename,
                  !.document_type = documentType,
                  !.metrics = metrics,
                  !.validation_results = validationResults,
                  !.page_count = Len(pages),
                  !.model = model,
                  !.errors = errors]
  /\ pc' = "done"
  /\ UNCHANGED << parseInput, parseOutput, pdfPath, options, tz, pages,
                  documentType, metrics, model, errors, validationResults,
                  calls >>

Next ==
  \/ Start
  \/ RenderFails
  \/ RenderReturns
  \/ Stage2
  \/ ClassifyFails
  \/ ClassifyReturns
  \/ Stage3
  \/ ExtractFails
  \/ ExtractReturns
  \/ Stage4LeaseType
  \/ Stage4Escalation
  \/ Stage4Validation
  \/ Return

Spec == Init /\ [][Next]_vars

(***************************************************************************)
(* The stage 4 functions on their own: record lists as the typed callers   *)
(* may pass them, the two correctors applied in any order, then the five   *)
(* checks.                                                                 *)
(***************************************************************************)
MaxCalls == 2

\* a record that is not in the list
Absent == [metric |-> Undef]

Rec(name, value, override, blurb, flags) ==
  [Metric(JStr(name), value, basename(FnLease), JStr(blurb), JArr(flags))
     EXCEPT !.override = override]

Val(name, value) == Rec(name, value, Null, "", <<>>)

\* name with value v, or no record when v is undefined
Opt(name, v) == IF v = Undef THEN Absent ELSE Val(name, v)

Present(list) == SelectSeq(list, LAMBDA m : m # Absent)

EscalationValues ==
  { Undef, Null, JNum(0), JNumQ(3, 100), JNumQ(1, 10), JNumQ(1, 5),
    JNumQ(3, 10), JNumQ(1, 2), JNumQ(57, 50), JNumQ(133, 100), JNumQ(3, 2),
    JNumQ(19, 10) }

EscalationTypes ==
  { Null, JStr("percentage"), JStr("fixed_dollar_per_rsf"),
    JStr("step_schedule") }

EscalationLists ==
  { Present(<< Val("starting_rent_monthly", r), Val("suite_sf", a),
               IF v = Undef THEN Absent
               ELSE Rec("rent_escalations", v, o, "", <<>>),
               Val("escalation_type", k),
               Rec("tenant_name", JStr("Acme"), Null, "Tenant: Acme",
                   << JStr("check") >>) >>) :
      r \in {Null, JNum(0), JNum(9500)},
      a \in {JNum(0), JNum(3000), JNum(11400)},
      v \in EscalationValues, o \in {Null, JNumQ(57, 50)},
      k \in EscalationTypes }

DepositLists ==
  { Present(<< Val("starting_rent_monthly", r), Opt("security_deposit", d) >>) :
      r \in {Null, JNum(0), JNum(7907), JNum(9500), JStr("abc")},
      d \in {Undef, Null, JNum(0), JNum(50), JNum(4749), JNum(4750),
             JNum(17279), JNum(57000), JNum(57001)} }

ProRataLists ==
  { Present(<< Opt("suite_sf", a), Opt("suite_pro_rata_share", p) >>) :
      a \in {Undef, Null, JNum(0), JNum(3000)},
      p \in {Undef, Null, JNum(0), JNumQ(300, 13813), JNumQ(217, 10000),
             JNumQ(24, 1000), JNumQ(1, 2)} }

RentLists ==
  { Present(<< Opt("suite_sf", a), Opt("starting_rent_monthly", r) >>) :
      a \in {Undef, Null, JNum(0), JNum(2497)},
      r \in {Undef, Null, JNum(0), JNumQ(790717, 100), JBig, JStr("abc")} }

DateLists ==
  { Present(<< Opt("lease_start_date", s), Val("lease_term_months", t),
               Val("lease_expiration_date", e) >>) :
      s \in {Undef, Null, JStr("2024-09-01"), JStr("September 1, 2024"),
             JStr("soon")},
      t \in {Null, JNum(0), JNum(40)},
      e \in {Null, JStr(""), JStr("2027-10-31"), JStr("2027-11-30"),
             JStr("2027-12-31"), JStr("2028-01-31"), JStr("2028-02-28")} }

Blurbs ==
  { "", "a triple-net lease", "This is a Triple Net lease", "NNN",
    "rent is net net net", "a full service gross lease" }

LeaseTypeLists ==
  { << Rec(n, v, o, b, f) >> :
      n \in {"document_type", "lease_type", "tenant_name"},
      v \in {Null, JStr("FSG"), JStr("NNN")},
      o \in {Null, JStr("NNN"), JStr("MG")},
      b \in Blurbs, f \in {<<>>, << JStr("check") >>} }
  \cup
  { << Rec("document_type", JStr("FSG"), Null, b, <<>>),
       Rec("tenant_name", JStr("Acme"), Null, "a triple-net lease", <<>>),
       Rec("lease_type", JStr("NNN"), o, b, << JStr("check") >>) >> :
      b \in Blurbs, o \in {Null, JStr("MG")} }
  \cup
  { << Rec("document_type", v, Null, b, <<>>),
       Rec("lease_type", v, Null, c, <<>>) >> :
      v \in {JStr("FSG"), JStr("NNN")}, b \in Blurbs, c \in Blurbs }

RecordLists ==
  EscalationLists \cup DepositLists \cup ProRataLists \cup RentLists
    \cup DateLists \cup LeaseTypeLists

Stage4Init ==
  /\ Elsewhere
  /\ metrics \in RecordLists
  /\ tz \in (IF metrics \in DateLists THEN TimeZones ELSE {"utc"})
  /\ pc = "stage4"
  /\ parseInput = NoDesc
  /\ parseOutput = NotParsed
  /\ pdfPath = FnLease
  /\ options = [forceDocumentType |-> "", skipExtraction |-> FALSE,
                maxPages |-> [given |-> FALSE, n |-> 0]]
  /\ pages = <<>>
  /\ documentType = ""
  /\ model = ""
  /\ errors = <<>>
  /\ validationResults = <<>>
  /\ calls = <<>>
  /\ result = NoResult

\* metrics = applyLeaseTypeCorrection(metrics)
CallLeaseTypeCorrection ==
  /\ UNCHANGED otherVars
  /\ pc = "stage4"
  /\ Len(calls) < MaxCalls
  /\ LET r == applyLeaseTypeCorrection(metrics) IN
     /\ calls' = Append(calls, Call("applyLeaseTypeCorrection", <<>>, ""))
     /\ IF r.threw
        THEN Throw("TypeError") /\ UNCHANGED metrics
        ELSE metrics' = r.metrics /\ UNCHANGED << pc, result >>
  /\ UNCHANGED << parseInput, parseOutput, pdfPath, options, tz, pages,
                  documentType, model, errors, validationResults >>

\* metrics = applyEscalationCorrection(metrics)
CallEscalationCorrection ==
  /\ UNCHANGED otherVars
  /\ pc = "stage4"
  /\ Len(calls) < MaxCalls
  /\ LET r == applyEscalationCorrection(metrics) IN
     /\ calls' = Append(calls, Call("applyEscalationCorrection", <<>>, ""))
     /\ IF r.threw
        THEN Throw("TypeError") /\ UNCHANGED metrics
        ELSE metrics' = r.metrics /\ UNCHANGED << pc, result >>
  /\ UNCHANGED << parseInput, parseOutput, pdfPath, options, tz, pages,
                  documentType, model, errors, validationResults >>

\* validationResults = runValidation(metrics)
CallRunValidation ==
  /\ UNCHANGED otherVars
  /\ pc = "stage4"
  /\ validationResults' = runValidation(metrics, tz)
  /\ calls' = Append(calls, Call("runValidation", <<>>, ""))
  /\ pc' = "validated"
  /\ UNCHANGED << parseInput, parseOutput, pdfPath, options, tz, pages,
                  documentType, metrics, model, errors, result >>

Stage4Next ==
  \/ CallLeaseTypeCorrection
  \/ CallEscalationCorrection
  \/ CallRunValidation

SpecStage4 == Stage4Init /\ [][Stage4Next]_vars

(***************************************************************************)
(* detectLeaseType on its own: the model's answer and what is returned.    *)
(***************************************************************************)
MaxChars == 4

\* the characters an answer of the classification model is made of
AnswerChars == {"N", "F", "S", "G", "m", "I", "A", " "}

\* response.content: every text of at most MaxChars characters
AnswerTexts == UNION {[1..n -> AnswerChars] : n \in 0..MaxChars}

ClassifyInit ==
  /\ response \in [content : AnswerTexts, model : {"vision-model"},
                   latencyMs : {12}]
  /\ typeResult = <<>>
  /\ config = <<>>
  /\ runs = <<>>
  /\ state = "idle"
  /\ pipelineOutput = <<>>
  /\ error = ""
  /\ actionedMetrics = {}
  /\ requests = <<>>
  /\ stored = <<>>
  /\ reviewed = {}
  /\ latest = 0
  /\ parseInput = NoDesc
  /\ parseOutput = NotParsed
  /\ pdfPath = FnLease
  /\ options = [forceDocumentType |-> "", skipExtraction |-> FALSE,
                maxPages |-> [given |-> FALSE, n |-> 0]]
  /\ tz = "utc"
  /\ pc = "detecting"
  /\ pages = << 1 >>
  /\ documentType = ""
  /\ metrics = <<>>
  /\ model = ""
  /\ errors = <<>>
  /\ validationResults = <<>>
  /\ calls = << Call("detectLeaseType", << 1 >>, "") >>
  /\ result = NoResult

\* detectLeaseType parses the response and returns
DetectReturns ==
  /\ pc = "detecting"
  /\ typeResult' = [documentType |-> documentTypeOf(response.content),
                    rawResponse |-> response.content,
                    model |-> response.model,
                    latencyMs |-> response.latencyMs]
  /\ pc' = "detected"
  /\ UNCHANGED << parseInput, parseOutput, pdfPath, options, tz, pages,
                  documentType, metrics, model, errors, validationResults,
                  calls, result, response, config, runs, state,
                  pipelineOutput, error, actionedMetrics, requests, stored,
                  reviewed, latest >>

ClassifyNext == DetectReturns

SpecClassify == ClassifyInit /\ [][ClassifyNext]_vars

(***************************************************************************)
(* Several runPipeline instances in one process.  Each step is what one    *)
(* instance does between two await points; the instances share the         *)
(* configuration singleton only.                                           *)
(***************************************************************************)
NumRuns == 2

\* the document of each instance
RunDocs == << FnLease, PathInAmendmentsDir, FnAmendment >>

\* process.env: the model variables unset, or EXTRACTION_MODEL set
Envs == {[EXTRACTION_MODEL |-> ""], [EXTRACTION_MODEL |-> "claude-x"]}

\* loadConfig(): the model names read from the environment, with defaults
loadConfig(env) ==
  [models |->
     [vision |-> "gpt-4o",
      extraction |-> IF env.EXTRACTION_MODEL = ""
                     THEN "claude-sonnet-4-5-20250929"
                     ELSE env.EXTRACTION_MODEL]]

\* getConfig() assigning the singleton on every call
getConfig_Reload(c) ==
  [c EXCEPT !.value = loadConfig(c.env), !.assignments = @ + 1]

\* getConfig(): the singleton after the call; its value is what is returned
getConfig(c) ==
  IF c.value = <<>>
  THEN [c EXCEPT !.value = loadConfig(c.env), !.assignments = @ + 1]
  ELSE c

\* the answers of the extraction model to an instance
RunAnswers ==
  { Desc(<<>>, TRUE, "object", "none", "fence_json"),
    Desc(<< ItemToks("document_type", << TStr("FSG") >>,
                     BlurbToks(TStr("a triple-net lease"))
                       \o FlagsToks(<< LBRACK, TStr("check"), RBRACK >>)) >>,
         FALSE, "object", "none", "none") }

NewRun(doc) ==
  [pc |-> "start", doc |-> doc, pages |-> <<>>, typeAnswer |-> <<>>,
   documentType |-> "", visionModel |-> "", extractionModel |-> "",
   extractAnswer |-> NoDesc, result |-> NoResult]

Thrown(run, message) ==
  [run EXCEPT !.pc = "done",
              !.result = [NoResult EXCEPT !.kind = "thrown", !.message = message]]

\* stage 4 and the return statement on the extraction result of an instance
Finished(run, extractionResult) ==
  LET corrected ==
        IF Len(extractionResult.metrics) = 0
        THEN [threw |-> FALSE, metrics |-> <<>>]
        ELSE LET a == applyLeaseTypeCorrection(extractionResult.metrics) IN
             IF a.threw THEN a ELSE applyEscalationCorrection(a.metrics)
  IN IF corrected.threw THEN Thrown(run, "TypeError")
     ELSE [run EXCEPT
             !.pc = "done",
             !.result = [NoResult EXCEPT
                !.kind = "output",
                !.filename = basename(run.doc),
                !.document_type = run.documentType,
                !.metrics = corrected.metrics,
                !.validation_results =
                   IF Len(corrected.metrics) = 0 THEN <<>>
                   ELSE runValidation(corrected.metrics, tz),
                !.page_count = Len(run.pages),
                !.model = run.extractionModel,
                !.errors = extractionResult.errors]]

ConcurrentInit ==
  /\ config \in [env : Envs, value : {<<>>}, assignments : {0}]
  /\ runs = [i \in 1..NumRuns |-> NewRun(RunDocs[i])]
  /\ response = <<>>
  /\ typeResult = <<>>
  /\ state = "idle"
  /\ pipelineOutput = <<>>
  /\ error = ""
  /\ actionedMetrics = {}
  /\ requests = <<>>
  /\ stored = <<>>
  /\ reviewed = {}
  /\ latest = 0
  /\ parseInput = NoDesc
  /\ parseOutput = NotParsed
  /\ pdfPath = FnLease
  /\ options = [forceDocumentType |-> "", skipExtraction |-> FALSE,
                maxPages |-> [given |-> FALSE, n |-> 0]]
  /\ tz = "utc"
  /\ pc = "idle"
  /\ pages = <<>>
  /\ documentType = ""
  /\ metrics = <<>>
  /\ model = ""
  /\ errors = <<>>
  /\ validationResults = <<>>
  /\ calls = <<>>
  /\ result = NoResult

NotTheRuns ==
  << parseInput, parseOutput, pdfPath, options, tz, pc, pages, documentType,
     metrics, model, errors, validationResults, calls, result, response,
     typeResult, state, pipelineOutput, error, actionedMetrics, requests,
     stored, reviewed, latest >>

\* instance i up to await pdfToImages(pdfPath)
RunStart(i) ==
  /\ runs[i].pc = "start"
  /\ runs' = [runs EXCEPT ![i] =
       IF isAmendment(basename(@.doc))
       THEN [@ EXCEPT !.pc = "done",
                      !.result = [NoResult EXCEPT
                         !.kind = "skipped",
                         !.reason = "Amendment detected - amendment processing not yet implemented",
                         !.filename = basename(runs[i].doc)]]
       ELSE [@ EXCEPT !.pc = "rendering"]]
  /\ UNCHANGED << config, NotTheRuns >>

\* pdfToImages of instance i fails, or returns n pages; with pages the
\* instance goes on into detectLeaseType up to await provider.complete
RunRendered(i) ==
  /\ runs[i].pc = "rendering"
  /\ \E n \in {-1, 0, 1} :
       IF n = -1
       THEN /\ runs' = [runs EXCEPT ![i] = Thrown(@, "pdfToImages failed")]
            /\ UNCHANGED config
       ELSE IF n = 0
       THEN /\ runs' = [runs EXCEPT ![i] = Thrown(@, "No pages extracted from PDF")]
            /\ UNCHANGED config
       ELSE /\ config' = getConfig(config)
            /\ runs' = [runs EXCEPT ![i] =
                 [@ EXCEPT !.pc = "detecting",
                           !.pages = [k \in 1..n |-> k],
                           !.visionModel = config'.value.models.vision]]
  /\ UNCHANGED NotTheRuns

\* the classification call of instance i fails, or answers; with an answer
\* the instance goes on into extractLeaseData up to await provider.complete
RunClassified(i) ==
  /\ runs[i].pc = "detecting"
  /\ \/ /\ runs' = [runs EXCEPT ![i] = Thrown(@, "classification failed")]
        /\ UNCHANGED config
     \/ \E content \in ClassifierAnswers :
          /\ config' = getConfig(config)
          /\ runs' = [runs EXCEPT ![i] =
               [@ EXCEPT !.pc = "extracting",
                         !.typeAnswer = content,
                         !.documentType = documentTypeOf(content),
                         !.extractionModel = config'.value.models.extraction]]
  /\ UNCHANGED NotTheRuns

\* the extraction call of instance i fails, or answers; with an answer the
\* instance parses it, runs stage 4 and returns
RunExtracted(i) ==
  /\ runs[i].pc = "extracting"
  /\ \/ runs' = [runs EXCEPT ![i] = Thrown(@, "extraction failed")]
     \/ \E d \in RunAnswers :
          runs' = [runs EXCEPT ![i] =
            Finished([@ EXCEPT !.extractAnswer = d],
                     parseExtractionResponse(ResponseOf(d), basename(@.doc)))]
  /\ UNCHANGED << config, NotTheRuns >>

ConcurrentNext ==
  \/ \E i \in 1..NumRuns : RunStart(i)
  \/ \E i \in 1..NumRuns : RunRendered(i)
  \/ \E i \in 1..NumRuns : RunClassified(i)
  \/ \E i \in 1..NumRuns : RunExtracted(i)

SpecConcurrent == ConcurrentInit /\ [][ConcurrentNext]_vars

(***************************************************************************)
(* The review page (Home) and the two routes it calls.  The page state is  *)
(* state, pipelineOutput, metrics, error and actionedMetrics;              *)
(* validationResults is liveValidationResults, recomputed on every render; *)
(* requests are the fetches made, each answered later or never.            *)
(***************************************************************************)
MaxClicks == 4

UploadFiles == {"a.pdf", "b.pdf"}

\* the records the extraction model returns for each uploaded file
ExtractedOf(file) ==
  IF file = "a.pdf"
  THEN << Val("lease_start_date", JStr("2024-09-01")),
          Val("lease_term_months", JNum(40)),
          Val("lease_expiration_date", JStr("2027-12-31")),
          Val("starting_rent_monthly", JNum(9500)),
          Val("suite_sf", JNum(3000)),
          Val("rent_escalations", JNumQ(57, 50)),
          Val("escalation_type", JStr("fixed_dollar_per_rsf")) >>
  ELSE << Rec("document_type", JStr("FSG"), Null, "a triple-net lease", <<>>),
          Rec("tenant_name", JStr("Acme"), Null, "Tenant: Acme",
              << JStr("check") >>) >>

\* the PipelineOutput that /api/extract returns for the file: runPipeline's
\* stage 4 on the extracted records
OutputOf(file, z) ==
  LET corrected ==
        applyEscalationCorrection(
          applyLeaseTypeCorrection(ExtractedOf(file)).metrics).metrics
  IN [filename |-> file, metrics |-> corrected,
      validation_results |-> runValidation(corrected, z)]

Digit(n) ==
  CASE n = 0 -> "0" [] n = 1 -> "1" [] n = 2 -> "2" [] n = 3 -> "3"
    [] n = 4 -> "4" [] n = 5 -> "5" [] n = 6 -> "6" [] n = 7 -> "7"
    [] n = 8 -> "8" [] n = 9 -> "9"

Pad2(n) == Digit(n \div 10) \o Digit(n % 10)

\* toISOString().split("T")[0] of the UTC calendar date dt
IsoDate(dt) ==
  Digit(dt.y \div 1000) \o Digit((dt.y \div 100) % 10) \o Pad2(dt.y % 100)
    \o "-" \o Pad2(dt.m0 + 1) \o "-" \o Pad2(dt.d)

NextDay(dt) ==
  IF dt.d < DaysIn(dt.y, dt.m0) THEN LDate(dt.y, dt.m0, dt.d + 1)
  ELSE IF dt.m0 < 11 THEN LDate(dt.y, dt.m0 + 1, 1)
  ELSE LDate(dt.y + 1, 0, 1)

\* new Date(startDate), setMonth(getMonth() + termMonths),
\* setDate(getDate() - 1), toISOString().split("T")[0] : the text written,
\* or nothing when toISOString throws on an Invalid Date.  The setters work
\* on the local date; a date-only ISO text is UTC midnight, which in a zone
\* behind UTC is the evening of the local day before.
NewExpiration(startDate, termMonths, z) ==
  LET start == NewDate(startDate, z)
      arg == MonthArg(start.m0, termMonths)
  IN IF ~start.valid \/ ~arg.ok THEN [ok |-> FALSE, text |-> ""]
     ELSE LET moved == Normalised(start.y, arg.k, start.d)
              last == PrevDay(moved)
              utc == IF DateTable(startDate.s).iso /\ z = "west"
                     THEN NextDay(last) ELSE last
          IN [ok |-> TRUE, text |-> IsoDate(utc)]

AutoCalculated(f) == f.t = "str" /\ f.s = "Auto-calculated"

\* recalculateDependentFields(metrics, changedMetric, newValue)
recalculateDependentFields(ms, changedMetric, newValue, z) ==
  IF changedMetric \notin {"lease_start_date", "lease_term_months"} THEN ms
  ELSE
    LET startDate == IF changedMetric = "lease_start_date" THEN newValue
                     ELSE Coalesce(getValue(ms, "lease_start_date"), Null)
        termMonths == IF changedMetric = "lease_term_months" THEN newValue
                      ELSE Coalesce(getValue(ms, "lease_term_months"), Null)
    IN IF ~(Truthy(startDate) /\ startDate.t = "str"
            /\ termMonths.t \in {"num", "nan"})
       THEN ms
       ELSE LET e == NewExpiration(startDate, termMonths, z) IN
            IF ~e.ok THEN ms
            ELSE [k \in 1..Len(ms) |->
                    IF Named(ms[k], "lease_expiration_date")
                    THEN [ms[k] EXCEPT
                            !.override = JStr(e.text),
                            !.flags = JArr(SelectSeq(@.items,
                                             LAMBDA f : ~AutoCalculated(f))
                                           \o << Note("Auto-calculated",
                                                      << startDate, termMonths >>) >>)]
                    ELSE ms[k]]

\* countOverrides(metrics) of the submit route
countOverrides(ms) ==
  Cardinality({k \in 1..Len(ms) : ms[k].override # Null})

Req(kind, file, ms, changed) ==
  [kind |-> kind, file |-> file, pending |-> TRUE, metrics |-> ms,
   changed |-> changed]

\* liveValidationResults
Live(ms, z) == IF Len(ms) = 0 THEN <<>> ELSE runValidation(ms, z)

ReviewInit ==
  /\ tz \in TimeZones
  /\ state = "idle"
  /\ pipelineOutput = <<>>
  /\ metrics = <<>>
  /\ error = ""
  /\ actionedMetrics = {}
  /\ requests = <<>>
  /\ stored = <<>>
  /\ reviewed = {}
  /\ latest = 0
  /\ validationResults = <<>>
  /\ calls = <<>>
  /\ response = <<>>
  /\ typeResult = <<>>
  /\ config = <<>>
  /\ runs = <<>>
  /\ parseInput = NoDesc
  /\ parseOutput = NotParsed
  /\ pdfPath = FnLease
  /\ options = [forceDocumentType |-> "", skipExtraction |-> FALSE,
                maxPages |-> [given |-> FALSE, n |-> 0]]
  /\ pc = "idle"
  /\ pages = <<>>
  /\ documentType = ""
  /\ model = ""
  /\ errors = <<>>
  /\ result = NoResult

NotThePage ==
  << parseInput, parseOutput, pdfPath, options, tz, pc, pages, documentType,
     model, errors, result, response, typeResult, config, runs >>

Clicked(fn) ==
  /\ Len(calls) < MaxClicks
  /\ calls' = Append(calls, Call(fn, <<>>, ""))

\* handleFileUpload(file) up to await fetch("/api/extract"); the file input
\* is shown in the idle state only
HandleFileUpload(file) ==
  /\ state = "idle"
  /\ Clicked("handleFileUpload")
  /\ pipelineOutput' = <<>>
  /\ metrics' = <<>>
  /\ actionedMetrics' = {}
  /\ error' = ""
  /\ state' = "processing"
  /\ requests' = Append(requests, Req("extract", file, <<>>, {}))
  /\ latest' = Len(requests) + 1
  /\ reviewed' = {}
  /\ validationResults' = Live(metrics', tz)
  /\ UNCHANGED << stored, NotThePage >>

\* the rest of handleFileUpload, when the fetch of request k settles
ExtractResponds(k) ==
  /\ requests[k].kind = "extract"
  /\ requests[k].pending
  /\ requests' = [requests EXCEPT ![k].pending = FALSE]
  /\ \/ /\ pipelineOutput' = OutputOf(requests[k].file, tz)
        /\ metrics' = pipelineOutput'.metrics
        /\ state' = "reviewing"
        /\ reviewed' = {}
        /\ UNCHANGED error
     \/ /\ error' = "Extraction failed"
        /\ state' = "idle"
        /\ UNCHANGED << pipelineOutput, metrics, reviewed >>
  /\ validationResults' = Live(metrics', tz)
  /\ UNCHANGED << actionedMetrics, stored, latest, calls, NotThePage >>

Shown == state = "reviewing" /\ pipelineOutput # <<>>

Cards == {metrics[k].metric.s : k \in 1..Len(metrics)}

CardOf(name) == CHOOSE m \in {metrics[k] : k \in 1..Len(metrics)} : Named(m, name)

\* what the reviewer types into the card of a field, as handleSaveEdit
\* hands it to onOverride
Typed(name) ==
  CASE name = "lease_start_date" -> {JStr("2024-01-15"), JStr("soon")}
    [] name = "lease_term_months" -> {JNum(12)}
    [] name = "rent_escalations" -> {Null}
    [] name = "tenant_name" -> {JStr("Bolt")}
    [] OTHER -> {}

\* handleOverride(metricName, newValue)
HandleOverride(metricName, newValue) ==
  /\ Shown
  /\ metricName \in Cards
  /\ Clicked("handleOverride")
  /\ metrics' = recalculateDependentFields(
                  [k \in 1..Len(metrics) |->
                     IF Named(metrics[k], metricName)
                     THEN [metrics[k] EXCEPT !.override = newValue]
                     ELSE metrics[k]],
                  metricName, newValue, tz)
  /\ actionedMetrics' = actionedMetrics \cup {metricName}
  /\ reviewed' = IF newValue = Null THEN reviewed \ {metricName}
                 ELSE reviewed \cup {metricName}
  /\ validationResults' = Live(metrics', tz)
  /\ UNCHANGED << state, pipelineOutput, error, requests, stored, latest,
                  NotThePage >>

\* handleApprove(metricName); the button of a card without an override
HandleApprove(metricName) ==
  /\ Shown
  /\ metricName \in Cards
  /\ CardOf(metricName).override = Null
  /\ Clicked("handleApprove")
  /\ actionedMetrics' = actionedMetrics \cup {metricName}
  /\ UNCHANGED << state, pipelineOutput, metrics, error, requests, stored,
                  reviewed, latest, validationResults, NotThePage >>

\* handleRevert(metricName); the button of a card with an override
HandleRevert(metricName) ==
  /\ Shown
  /\ metricName \in Cards
  /\ CardOf(metricName).override # Null
  /\ Clicked("handleRevert")
  /\ metrics' = [k \in 1..Len(metrics) |->
                   IF Named(metrics[k], metricName)
                   THEN [metrics[k] EXCEPT !.override = Null]
                   ELSE metrics[k]]
  /\ actionedMetrics' = actionedMetrics \ {metricName}
  /\ reviewed' = reviewed \ {metricName}
  /\ validationResults' = Live(metrics', tz)
  /\ UNCHANGED << state, pipelineOutput, error, requests, stored, latest,
                  NotThePage >>

\* handleSubmit up to await fetch("/api/submit")
HandleSubmit ==
  /\ Shown
  /\ Clicked("handleSubmit")
  /\ state' = "submitting"
  /\ error' = ""
  /\ requests' = Append(requests,
                        Req("submit", pipelineOutput.filename, metrics, reviewed))
  /\ UNCHANGED << pipelineOutput, metrics, actionedMetrics, stored, reviewed,
                  latest, validationResults, NotThePage >>

\* the submit route on request k (the document upserted with its audit
\* trail) and the rest of handleSubmit, or the failure of the request
SubmitResponds(k) ==
  /\ requests[k].kind = "submit"
  /\ requests[k].pending
  /\ requests' = [requests EXCEPT ![k].pending = FALSE]
  /\ \/ /\ stored' = [source_document |-> requests[k].file,
                      metrics |-> requests[k].metrics,
                      overrides_applied |-> countOverrides(requests[k].metrics),
                      changed |-> requests[k].changed]
        /\ state' = "submitted"
        /\ UNCHANGED error
     \/ /\ error' = "Submit failed"
        /\ state' = "reviewing"
        /\ UNCHANGED stored
  /\ UNCHANGED << pipelineOutput, metrics, actionedMetrics, reviewed, latest,
                  validationResults, calls, NotThePage >>

\* handleReset; "Start Over" and "Cancel and start over" are shown in every
\* state but idle
HandleReset ==
  /\ state # "idle"
  /\ Clicked("handleReset")
  /\ state' = "idle"
  /\ pipelineOutput' = <<>>
  /\ metrics' = <<>>
  /\ error' = ""
  /\ actionedMetrics' = {}
  /\ reviewed' = {}
  /\ latest' = 0
  /\ validationResults' = Live(metrics', tz)
  /\ UNCHANGED << requests, stored, NotThePage >>

ReviewNext ==
  \/ \E file \in UploadFiles : HandleFileUpload(file)
  \/ \E k \in 1..Len(requests) : ExtractResponds(k)
  \/ \E name \in Cards : \E v \in Typed(name) : HandleOverride(name, v)
  \/ \E name \in Cards : HandleApprove(name)
  \/ \E name \in Cards : HandleRevert(name)
  \/ HandleSubmit
  \/ \E k \in 1..Len(requests) : SubmitResponds(k)
  \/ HandleReset

SpecReview == ReviewInit /\ [][ReviewNext]_vars

(***************************************************************************)
(* Properties.                                                             *)
(***************************************************************************)
Fns == [i \in 1..Len(calls) |-> calls[i].fn]

\* str contains word, ignoring the case of str
HasWordCI(str, word) ==
  \E i \in 0..(Len(str) - Len(word)) :
    \A j \in 1..Len(word) : Mapped(str[i + j], Uppers, Lowers) = word[j]

AmendmentWords ==
  { << "a", "m", "e", "n", "d", "m", "e", "n", "t" >>,
    << "a", "m", "e", "n", "d" >>,
    << "a", "d", "d", "e", "n", "d", "u", "m" >>,
    << "m", "o", "d", "i", "f", "i", "c", "a", "t", "i", "o", "n" >> }

NamesAmendment == \E w \in AmendmentWords : HasWordCI(basename(pdfPath), w)

\* C1: a file whose base name contains an amendment word (in any case) ends
\* the run at once with the skipped value and no stage function is ever
\* called; every other file is not skipped and its first call is the page
\* renderer; a skipped value is never accompanied by output.
C1_SkipRule ==
  /\ NamesAmendment =>
       /\ calls = <<>>
       /\ pc \in {"start", "done"}
       /\ pc = "done" =>
            /\ result.kind = "skipped"
            /\ result.filename = basename(pdfPath)
            /\ result.reason # ""
  /\ ~NamesAmendment =>
       /\ result.kind # "skipped"
       /\ pc # "start" => (calls # <<>> /\ calls[1].fn = "pdfToImages")
  /\ result.kind = "skipped" =>
       /\ result.metrics = <<>>
       /\ result.validation_results = <<>>
       /\ result.document_type = ""

C1_Witness ==
  pdfPath = FnAmendment /\ pc = "done" /\ result.kind = "skipped"

StageRank(fn) ==
  CASE fn = "pdfToImages" -> 1
    [] fn = "detectLeaseType" -> 2
    [] fn = "extractLeaseData" -> 3
    [] fn = "applyLeaseTypeCorrection" -> 4
    [] fn = "applyEscalationCorrection" -> 5
    [] OTHER -> 6

\* the stage function called just before call i, "" for the first call
Before(i) == IF i = 1 THEN "" ELSE calls[i - 1].fn

\* C2: the stage functions are called in the order render, classify,
\* extract, lease-type correction, escalation correction, validation, each
\* at most once and each only after the one before it has returned; with a
\* forced subtype the classifier is never called and the forced subtype is
\* what extraction receives and what the output reports.
C2_StageOrder ==
  /\ \A i, j \in 1..Len(calls) :
       i < j => StageRank(calls[i].fn) < StageRank(calls[j].fn)
  /\ \A i \in 1..Len(calls) :
       /\ calls[i].fn = "pdfToImages" => i = 1
       /\ calls[i].fn = "detectLeaseType" =>
            Before(i) = "pdfToImages" /\ options.forceDocumentType = ""
       /\ calls[i].fn = "extractLeaseData" =>
            /\ Before(i) = (IF options.forceDocumentType = ""
                            THEN "detectLeaseType" ELSE "pdfToImages")
            /\ options.forceDocumentType # "" =>
                 calls[i].documentType = options.forceDocumentType
       /\ calls[i].fn = "applyLeaseTypeCorrection" =>
            Before(i) = "extractLeaseData"
       /\ calls[i].fn = "applyEscalationCorrection" =>
            Before(i) = "applyLeaseTypeCorrection"
       /\ calls[i].fn = "runValidation" =>
            Before(i) = "applyEscalationCorrection"
  /\ pc = "stage1" => calls[Len(calls)].fn = "pdfToImages"
  /\ pc = "detecting" => calls[Len(calls)].fn = "detectLeaseType"
  /\ pc = "extracting" => calls[Len(calls)].fn = "extractLeaseData"
  /\ result.kind = "output" =>
       /\ options.forceDocumentType # "" =>
            result.document_type = options.forceDocumentType
       /\ ~options.skipExtraction =>
            Fns = (IF options.forceDocumentType = ""
                   THEN << "pdfToImages", "detectLeaseType" >>
                   ELSE << "pdfToImages" >>)
                  \o << "extractLeaseData", "applyLeaseTypeCorrection",
                        "applyEscalationCorrection", "runValidation" >>

C2_Witness ==
  /\ result.kind = "output"
  /\ options.forceDocumentType = "NNN"
  /\ Len(calls) = 5

FatalMessages ==
  {"pdfToImages failed", "No pages extracted from PDF",
   "classification failed", "extraction failed"}

\* C3: a run throws only for a fatal stage error (no pages, a failed
\* rendering, classification or extraction call), and once the extraction
\* model has answered, whatever the answer, the run ends with an output.
C3_OnlyFatalErrorsThrow ==
  /\ result.kind = "thrown" => result.message \in FatalMessages
  /\ model = "extraction-model" => result.kind # "thrown"
  /\ (model = "extraction-model" /\ pc = "done") => result.kind = "output"

HasNote(m, note) ==
  m.flags.t = "arr" /\ \E k \in 1..Len(m.flags.items) : m.flags.items[k] = JStr(note)

SchemaNames == {expectedFields[k] : k \in 1..Len(expectedFields)}

\* strict parsing failed and the regex recovered nothing
TotalFailure ==
  /\ parseOutput.done
  /\ parseOutput.errors # <<>>
  /\ parseOutput.errors[1].kind = "JSON parse error"
  /\ \A k \in 1..Len(parseOutput.metrics) :
       ~HasNote(parseOutput.metrics[k], FallbackNote)

\* C4: whatever the response, the returned list has a record for each of
\* the 27 schema names; when nothing was parsed or recovered it is the 27
\* placeholder records.
C4_SchemaCovered ==
  parseOutput.done =>
    /\ \A f \in SchemaNames :
         \E k \in 1..Len(parseOutput.metrics) :
           parseOutput.metrics[k].metric = JStr(f)
    /\ TotalFailure =>
         parseOutput.metrics =
           [k \in 1..27 |->
              [metric |-> JStr(expectedFields[k]), value |-> Null,
               override |-> Null, source_document |-> basename(pdfPath),
               source_blurb |-> JStr(""),
               flags |-> JArr(<< JStr(PlaceholderNote) >>)]]

C4_Witness == TotalFailure /\ Len(parseOutput.metrics) = 27

\* the described response does not parse strictly into a list of objects:
\* it is damaged, or one of its elements is null
StrictFails(d) ==
  d.damage # "none" \/ \E k \in 1..Len(d.items) : d.items[k] = << TLit("null") >>

IsPlaceholder(m) == HasNote(m, PlaceholderNote) /\ m.value = Null

\* the schema names whose record in ms is a placeholder, in schema order
PlaceholderNames(ms) ==
  SelectSeq(expectedFields,
            LAMBDA f : \E k \in 1..Len(ms) :
                         ms[k].metric = JStr(f) /\ IsPlaceholder(ms[k]))

ErrorKinds(es) == [k \in 1..Len(es) |-> es[k].kind]

\* C5: the extraction stage never throws on a response: it records one
\* JSON parse error exactly when strict parsing fails (and then every record
\* got from the response comes from the fallback), then one Missing fields
\* error exactly when names are missing, listing exactly those names; and
\* the output's error list is these strings in this order.
C5_ParseErrorsRecorded ==
  /\ (pc \notin {"start", "stage1", "stage2", "detecting", "stage3", "extracting"}
      /\ model = "extraction-model") =>
       /\ ErrorKinds(errors) =
            (IF StrictFails(parseInput) THEN << "JSON parse error" >> ELSE <<>>)
            \o (IF PlaceholderNames(metrics) # <<>>
                THEN << "Missing fields" >> ELSE <<>>)
       /\ \A k \in 1..Len(errors) :
            errors[k].kind = "Missing fields" =>
              errors[k].names = PlaceholderNames(metrics)
       /\ StrictFails(parseInput) =>
            \A k \in 1..Len(metrics) :
              IsPlaceholder(metrics[k]) \/ HasNote(metrics[k], FallbackNote)
  /\ (result.kind = "output" /\ model = "extraction-model") =>
       result.errors = errors
  /\ (result.kind = "thrown" /\ model = "") =>
       result.message \in FatalMessages

C5_Witness ==
  /\ result.kind = "output"
  /\ ErrorKinds(result.errors) = << "JSON parse error", "Missing fields" >>
  /\ \E k \in 1..Len(result.metrics) : HasNote(result.metrics[k], FallbackNote)

\* the records the extraction stage returned for the answer of this run
Extracted == parseExtractionResponse(ResponseOf(parseInput), basename(pdfPath)).metrics

\* C6: in an output with records, the records are the extracted ones after
\* the lease-type and then the escalation corrector, the three functions
\* were called in that order before validation, and the validation outcomes
\* are those of the five checks on the records of that same output.
C6_ValidationSeesCorrections ==
  (result.kind = "output" /\ Len(result.metrics) > 0) =>
    /\ result.metrics =
         applyEscalationCorrection(
           applyLeaseTypeCorrection(Extracted).metrics).metrics
    /\ result.validation_results = runValidation(result.metrics, tz)
    /\ Len(calls) >= 3
    /\ SubSeq(Fns, Len(calls) - 2, Len(calls)) =
         << "applyLeaseTypeCorrection", "applyEscalationCorrection",
            "runValidation" >>

C6_Witness ==
  /\ result.kind = "output"
  /\ Len(result.metrics) > 0
  /\ result.metrics # Extracted
  /\ result.validation_results # runValidation(Extracted, tz)

Names(ms) == [k \in 1..Len(ms) |-> ms[k].metric]

\* C7: the returned list names each schema field exactly once and nothing
\* else, so it never has more than 27 records.
C7_ExactlyTheSchema ==
  parseOutput.done =>
    /\ Len(parseOutput.metrics) <= 27
    /\ \A i, j \in 1..Len(parseOutput.metrics) :
         i # j => parseOutput.metrics[i].metric # parseOutput.metrics[j].metric
    /\ {parseOutput.metrics[k].metric : k \in 1..Len(parseOutput.metrics)} =
         {JStr(f) : f \in SchemaNames}

\* the records got from the response, by strict parsing or by the fallback
Obtained ==
  Recovered(StrictParse(ResponseOf(parseInput), basename(pdfPath)),
            ResponseOf(parseInput), basename(pdfPath)).metrics

MissingFrom(ms) ==
  {f \in SchemaNames : \A k \in 1..Len(ms) : ms[k].metric # JStr(f)}

\* C8: the records got from the response are kept as they are, one
\* placeholder is appended for each schema name they lack and nothing else,
\* and afterwards the names present are exactly the 27 schema names.
C8_PlaceholdersCompleteSchema ==
  parseOutput.done =>
    LET got == Obtained
        out == parseOutput.metrics
        N == Cardinality(MissingFrom(got))
    IN /\ Len(out) = Len(got) + N
       /\ SubSeq(out, 1, Len(got)) = got
       /\ \A k \in (Len(got) + 1)..Len(out) :
            /\ out[k].metric \in {JStr(f) : f \in MissingFrom(got)}
            /\ out[k].value = Null
            /\ out[k].override = Null
            /\ out[k].source_blurb = JStr("")
            /\ out[k].flags = JArr(<< JStr(PlaceholderNote) >>)
       /\ \A f \in MissingFrom(got) :
            Cardinality({k \in (Len(got) + 1)..Len(out) : out[k].metric = JStr(f)}) = 1
       /\ {out[k].metric : k \in 1..Len(out)} = {JStr(f) : f \in SchemaNames}

\* the described response is undamaged and lists field objects only
WellFormed(d) ==
  d.damage = "none" /\ \A k \in 1..Len(d.items) : d.items[k][1].t = "{"

\* C9: a well-formed response that contains the full schema gives exactly
\* 27 records, none with the placeholder or the fallback note, each with a
\* null override and the given file name, and no error string.
C9_FullResponseGives27 ==
  (parseOutput.done /\ parseInput.full /\ WellFormed(parseInput)) =>
    /\ Len(parseOutput.metrics) = 27
    /\ \A k \in 1..Len(parseOutput.metrics) :
         /\ ~HasNote(parseOutput.metrics[k], PlaceholderNote)
         /\ ~HasNote(parseOutput.metrics[k], FallbackNote)
         /\ parseOutput.metrics[k].override = Null
         /\ parseOutput.metrics[k].source_document = basename(pdfPath)
    /\ parseOutput.errors = <<>>

\* C10: a response wrapped in a code fence parses to the same records and
\* the same error strings as its content without the fence.
C10_FenceIsTransparent ==
  (parseOutput.done /\ parseInput.wrap # "none") =>
    LET bare == parseExtractionResponse(ContentOf(parseInput), basename(pdfPath))
    IN /\ parseOutput.metrics = bare.metrics
       /\ parseOutput.errors = bare.errors

\* the response's strict parsing failed
StrictFailed ==
  /\ parseOutput.done
  /\ parseOutput.errors # <<>>
  /\ parseOutput.errors[1].kind = "JSON parse error"

\* the field objects of the described response that have a value
Pairs(d) ==
  {k \in 1..Len(d.items) :
     Len(d.items[k]) >= 9 /\ d.items[k][6] = TStr("value")}

\* what the value lexeme v stands for: null, a boolean, the whole string
\* between the quotes, or the number
Coerced(v) ==
  CASE v.t = "lit" -> LitValue(v.s)
    [] v.t = "str" -> JStr(v.s)
    [] OTHER -> JNumQ(v.n, v.d)

\* C11: when strict parsing fails, each metric/value pair of the response
\* gives a recovered record with the pair's name and the coercion of its
\* value (null, boolean, the whole quoted string, number), with a null
\* override and the fallback note.
C11_FallbackCoercion ==
  StrictFailed =>
    /\ \A k \in Pairs(parseInput) :
         \E j \in 1..Len(parseOutput.metrics) :
           /\ parseOutput.metrics[j].metric = JStr(parseInput.items[k][4].s)
           /\ parseOutput.metrics[j].value = Coerced(parseInput.items[k][8])
           /\ parseOutput.metrics[j].override = Null
           /\ HasNote(parseOutput.metrics[j], FallbackNote)
    /\ \A j \in 1..Len(parseOutput.metrics) :
         HasNote(parseOutput.metrics[j], FallbackNote) =>
           parseOutput.metrics[j].override = Null

\* the step is a call of stage function fn
IsCall(fn) == calls' = Append(calls, Call(fn, <<>>, ""))

LastCall == IF calls = <<>> THEN "" ELSE calls[Len(calls)].fn

\* the effective value of the first record named name in list ms
Effective(ms, name) ==
  LET S == {k \in 1..Len(ms) : ms[k].metric = JStr(name)} IN
  IF S = {} THEN Undef
  ELSE LET j == CHOOSE j \in S : \A k \in S : j <= k IN
       IF ms[j].override \in {Null, Undef} THEN ms[j].value ELSE ms[j].override

\* C12: applying the escalation corrector to its own output changes
\* nothing: no override is written and no note is appended by a call that
\* directly follows another call of the corrector.
C12_EscalationIdempotent ==
  [][(LastCall = "applyEscalationCorrection"
      /\ IsCall("applyEscalationCorrection")) => metrics' = metrics]_vars

\* the corrector ran twice on a list it corrected to 3 or 5 percent
C12_Witness ==
  /\ Len(calls) = 2
  /\ calls[1].fn = "applyEscalationCorrection"
  /\ calls[2].fn = "applyEscalationCorrection"
  /\ \E k \in 1..Len(metrics) :
       /\ metrics[k].metric = JStr("rent_escalations")
       /\ metrics[k].override \in {JNumQ(3, 100), JNumQ(1, 20)}
       /\ metrics[k].value # metrics[k].override
  /\ Effective(metrics, "escalation_type") = JStr("percentage")

\* a value that is there and is not zero
IsSet(x) == x \notin {Undef, Null, JNum(0), JStr("")}

\* v / (r * 12 / a)
ImpliedPercent(r, a, v) ==
  XDiv(ToNumber(v), XDiv(XMul(ToNumber(r), Fin(12, 1)), ToNumber(a)))

\* every record named name in list after is the record of list before at
\* the same place with override ov and one more note at the end
Overridden(before, after, name, ov) ==
  \A k \in 1..Len(before) :
    before[k].metric = JStr(name) =>
      /\ after[k].override = ov
      /\ Len(after[k].flags.items) = Len(before[k].flags.items) + 1
      /\ SubSeq(after[k].flags.items, 1, Len(before[k].flags.items)) =
           before[k].flags.items
      /\ [after[k] EXCEPT !.override = before[k].override,
                          !.flags = before[k].flags] = before[k]

\* the decision rule of the corrector for rent r, area a, value v, type k,
\* relating the list before a call to the list after it
EscalationRule(before, after, r, a, v, k) ==
  LET x == ToNumber(v)
      ip == ImpliedPercent(r, a, v)
      three == XGe(x, Fin(1, 2)) /\ XGe(ip, Fin(25, 1000)) /\ XLe(ip, Fin(35, 1000))
      five == XGe(x, Fin(1, 2)) /\ XGe(ip, Fin(45, 1000)) /\ XLe(ip, Fin(55, 1000))
  IN IF ~(IsSet(r) /\ IsSet(a) /\ IsSet(v) /\ IsSet(k)) THEN after = before
     ELSE IF three
     THEN /\ Overridden(before, after, "rent_escalations", JNumQ(3, 100))
          /\ Overridden(before, after, "escalation_type", JStr("percentage"))
     ELSE IF five
     THEN /\ Overridden(before, after, "rent_escalations", JNumQ(1, 20))
          /\ Overridden(before, after, "escalation_type", JStr("percentage"))
     ELSE IF XGe(x, Fin(1, 2)) THEN after = before
     ELSE IF XLt(x, Fin(1, 5))
     THEN /\ Effective(after, "escalation_type") = JStr("percentage")
          /\ Effective(after, "rent_escalations") = v
     ELSE after = before

\* C13: a call of the escalation corrector follows the decision rule: both
\* records overridden to percentage and 0.03 (0.05) with a note each when
\* the value is 0.5 or more and the implied percentage is in the 3% (5%)
\* band, no change when it is 0.5 or more outside the bands, percentage
\* confirmed with the value kept when it is below 0.20, and the list
\* returned as it is when rent, area, value or type is missing, null or zero.
C13_EscalationDecisionRule ==
  [][IsCall("applyEscalationCorrection") =>
       EscalationRule(metrics, metrics',
                      Effective(metrics, "starting_rent_monthly"),
                      Effective(metrics, "suite_sf"),
                      Effective(metrics, "rent_escalations"),
                      Effective(metrics, "escalation_type"))]_vars

\* rent 9500, area 3000, value 1.14 overridden to percentage and 0.03
C13_Witness ==
  /\ calls # <<>>
  /\ calls[1].fn = "applyEscalationCorrection"
  /\ Effective(metrics, "starting_rent_monthly") = JNum(9500)
  /\ Effective(metrics, "suite_sf") = JNum(3000)
  /\ \E k \in 1..Len(metrics) :
       /\ metrics[k].metric = JStr("rent_escalations")
       /\ metrics[k].value = JNumQ(57, 50)
       /\ metrics[k].override = JNumQ(3, 100)
  /\ \E k \in 1..Len(metrics) :
       /\ metrics[k].metric = JStr("escalation_type")
       /\ metrics[k].value = JStr("fixed_dollar_per_rsf")
       /\ metrics[k].override = JStr("percentage")

\* the source quotes of the lists that hold 'triple-net', 'triple net',
\* 'nnn' or 'net net net' when case is ignored
TripleNetQuotes ==
  { "a triple-net lease", "This is a Triple Net lease", "NNN",
    "rent is net net net" }

\* override if set, else the extracted value, of one record
EffectiveOf(m) == IF m.override \in {Undef, Null} THEN m.value ELSE m.override

\* what the lease-type corrector is to make of one record
LeaseTypeRule(before, after) ==
  IF /\ before.metric \in {JStr("document_type"), JStr("lease_type")}
     /\ before.source_blurb.s \in TripleNetQuotes
     /\ EffectiveOf(before) # JStr("NNN")
  THEN /\ after.override = JStr("NNN")
       /\ Len(after.flags.items) = Len(before.flags.items) + 1
       /\ SubSeq(after.flags.items, 1, Len(before.flags.items)) =
            before.flags.items
       /\ after.flags.items[Len(after.flags.items)].t = "str"
       /\ [after EXCEPT !.override = before.override,
                        !.flags = before.flags] = before
  ELSE after = before

\* C14: a call of the lease-type corrector sets override to NNN and appends
\* one note on each document_type or lease_type record whose source quote
\* has triple-net phrasing and whose effective value is not NNN, leaves
\* every other record as it is, and a call directly after another call of it
\* changes nothing.
C14_LeaseTypeCorrector ==
  [][IsCall("applyLeaseTypeCorrection") =>
       /\ Len(metrics') = Len(metrics)
       /\ \A k \in 1..Len(metrics) : LeaseTypeRule(metrics[k], metrics'[k])
       /\ LastCall = "applyLeaseTypeCorrection" => metrics' = metrics]_vars

\* the corrector ran twice on a list where it overrode a lease_type record
\* whose effective value was an earlier override
C14_Witness ==
  /\ Len(calls) = 2
  /\ calls[1].fn = "applyLeaseTypeCorrection"
  /\ calls[2].fn = "applyLeaseTypeCorrection"
  /\ \E k \in 1..Len(metrics) :
       /\ metrics[k].metric = JStr("lease_type")
       /\ metrics[k].value = JStr("NNN")
       /\ metrics[k].override = JStr("NNN")
       /\ metrics[k].source_blurb = JStr("This is a Triple Net lease")
       /\ Len(metrics[k].flags.items) = 2
  /\ \E k \in 1..Len(metrics) :
       /\ metrics[k].metric = JStr("tenant_name")
       /\ metrics[k].source_blurb = JStr("a triple-net lease")
       /\ metrics[k].override = Null

IsCorrectorCall ==
  IsCall("applyLeaseTypeCorrection") \/ IsCall("applyEscalationCorrection")

\* list after has the records of list before, in the same order, each with
\* the same name, extracted value, source document and source quote, and
\* with the notes of before as the first notes of after
SameRecords(before, after) ==
  /\ Len(after) = Len(before)
  /\ \A k \in 1..Len(before) :
       /\ after[k].metric = before[k].metric
       /\ after[k].value = before[k].value
       /\ after[k].source_document = before[k].source_document
       /\ after[k].source_blurb = before[k].source_blurb
       /\ before[k].flags.t = "arr"
       /\ after[k].flags.t = "arr"
       /\ Len(after[k].flags.items) >= Len(before[k].flags.items)
       /\ SubSeq(after[k].flags.items, 1, Len(before[k].flags.items)) =
            before[k].flags.items

\* the records extraction returns for the answer of the next state
ExtractedNext ==
  parseExtractionResponse(ResponseOf(parseInput'), basename(pdfPath')).metrics

\* C15: in a run the record list changes only when extraction returns it
\* and when a corrector is applied; a corrector keeps the number and order of
\* the records and each record's name, extracted value, source document,
\* source quote and existing notes; and the output has as many records as
\* extraction returned.
C15_CorrectorsFrame ==
  [][/\ metrics' # metrics =>
          \/ pc = "extracting" /\ metrics' = ExtractedNext
          \/ IsCorrectorCall /\ SameRecords(metrics, metrics')
     /\ (result'.kind = "output" /\ (\E i \in 1..Len(calls') : calls'[i].fn = "extractLeaseData")) =>
          Len(result'.metrics) = Len(ExtractedNext)]_vars

\* an output whose records were extracted and then changed by a corrector
C15_Witness ==
  /\ result.kind = "output"
  /\ (\E i \in 1..Len(calls) : calls[i].fn = "extractLeaseData")
  /\ Len(result.metrics) > 0
  /\ result.metrics # Extracted
  /\ \E k \in 1..Len(result.metrics) :
       /\ result.metrics[k].override # Extracted[k].override
       /\ Len(result.metrics[k].flags.items) > Len(Extracted[k].flags.items)

\* missing, null or zero
Absentish(x) == x \in {Undef, Null, JNum(0)}

\* some field of names has a missing, null or zero effective value
AnyAbsent(ms, names) == \E n \in names : Absentish(Effective(ms, n))

StatusOf(i) == validationResults[i].status

\* the checks other than proportionate share skip on an absent input
OthersSkip ==
  /\ AnyAbsent(metrics, {"suite_sf", "starting_rent_monthly"}) =>
       StatusOf(1) = "SKIP"
  /\ AnyAbsent(metrics, {"lease_start_date", "lease_term_months",
                         "lease_expiration_date"}) =>
       StatusOf(3) = "SKIP"
  /\ AnyAbsent(metrics, {"rent_escalations", "escalation_type",
                         "starting_rent_monthly", "suite_sf"}) =>
       StatusOf(4) = "SKIP"
  /\ AnyAbsent(metrics, {"security_deposit", "starting_rent_monthly"}) =>
       StatusOf(5) = "SKIP"

\* C16 as stated: each of the five checks returns SKIP when the effective
\* value of any of its required inputs is missing, null or zero.
C16_SkipOnAbsent ==
  pc = "validated" =>
    /\ OthersSkip
    /\ AnyAbsent(metrics, {"suite_sf", "suite_pro_rata_share"}) =>
         StatusOf(2) = "SKIP"

\* C16 amended: rent arithmetic, date arithmetic, escalation consistency and
\* deposit sanity return SKIP when any required input is missing, null or
\* zero; proportionate share returns SKIP when suite_sf is missing, null or
\* zero or suite_pro_rata_share is missing or null, and checks a zero share
\* as a value (it does not return SKIP for it).
C16_SkipOnAbsentShareZeroChecked ==
  pc = "validated" =>
    /\ OthersSkip
    /\ (\/ Absentish(Effective(metrics, "suite_sf"))
        \/ Effective(metrics, "suite_pro_rata_share") \in {Undef, Null}) =>
         StatusOf(2) = "SKIP"
    /\ (/\ ~Absentish(Effective(metrics, "suite_sf"))
        /\ Effective(metrics, "suite_pro_rata_share") = JNum(0)) =>
         StatusOf(2) # "SKIP"

\* validated: area 3000 with a zero share fails the proportionate-share
\* check while the checks without inputs skip
C16_Witness ==
  /\ pc = "validated"
  /\ Effective(metrics, "suite_sf") = JNum(3000)
  /\ Effective(metrics, "suite_pro_rata_share") = JNum(0)
  /\ StatusOf(2) = "FAIL"
  /\ StatusOf(1) = "SKIP"
  /\ StatusOf(3) = "SKIP"

\* C17: with start 2024-09-01 and a term of 40 months the expected
\* expiration is the end of December 2027; a stated expiration in that month
\* or one calendar month away (2028-01-31) passes the date check, and one two
\* months away (2028-02-28) fails it.
C17_DateArithmetic ==
  (/\ pc = "validated"
   /\ Effective(metrics, "lease_start_date") = JStr("2024-09-01")
   /\ Effective(metrics, "lease_term_months") = JNum(40)) =>
    /\ Effective(metrics, "lease_expiration_date") = JStr("2028-02-28") =>
         StatusOf(3) = "FAIL"
    /\ Effective(metrics, "lease_expiration_date")
         \in {JStr("2027-12-31"), JStr("2028-01-31")} =>
         StatusOf(3) = "PASS"

\* the four inputs of the escalation checks are there and not zero
EscalationInputsSet(ms) ==
  ~AnyAbsent(ms, {"rent_escalations", "escalation_type",
                  "starting_rent_monthly", "suite_sf"})

\* the implied percentage of the list lies in [lo, hi]
ImpliedIn(ms, lo, hi) ==
  LET ip == ImpliedPercent(Effective(ms, "starting_rent_monthly"),
                           Effective(ms, "suite_sf"),
                           Effective(ms, "rent_escalations"))
  IN XGe(ip, lo) /\ XLe(ip, hi)

PercentageButDollarSized(ms) ==
  /\ Effective(ms, "escalation_type") = JStr("percentage")
  /\ XGe(ToNumber(Effective(ms, "rent_escalations")), Fin(1, 2))

DollarKind(ms) ==
  Effective(ms, "escalation_type")
    \in {JStr("fixed_dollar_per_rsf"), JStr("step_schedule")}

C19_RentArithmeticNeverFails ==
  pc = "validated" =>
    /\ StatusOf(1) # "FAIL"
    /\ StatusOf(1) =
         IF AnyAbsent(metrics, {"suite_sf", "starting_rent_monthly"})
         THEN "SKIP" ELSE "PASS"

\* C20: with a deposit and a monthly rent that are numbers and not zero,
\* the deposit check returns FLAG when deposit / rent is below 0.5 or above
\* 6.0 and PASS when it is from 0.5 to 6.0, both bounds included; the check
\* never returns FAIL.
C20_DepositSanity ==
  pc = "validated" =>
    /\ StatusOf(5) # "FAIL"
    /\ LET d == Effective(metrics, "security_deposit")
           r == Effective(metrics, "starting_rent_monthly")
       IN (d.t = "num" /\ r.t = "num" /\ d # JNum(0) /\ r # JNum(0)) =>
            StatusOf(5) =
              IF \/ XLt(XMul(ToNumber(d), Fin(2, 1)), ToNumber(r))
                 \/ XGt(ToNumber(d), XMul(ToNumber(r), Fin(6, 1)))
              THEN "FLAG" ELSE "PASS"

\* validated: a deposit of exactly six months' rent passes
C20_Witness ==
  /\ pc = "validated"
  /\ Effective(metrics, "security_deposit") = JNum(57000)
  /\ Effective(metrics, "starting_rent_monthly") = JNum(9500)
  /\ StatusOf(5) = "PASS"

CheckOrder ==
  << "rent_math", "pro_rata", "date_arithmetic", "escalation_consistency",
     "deposit_sanity" >>

\* C21: a call of runValidation leaves the record list as it is and gives
\* five outcomes, those of rent_math, pro_rata, date_arithmetic,
\* escalation_consistency and deposit_sanity in this order, and the outcomes
\* are determined by the record list alone: they are the ones any host gives
\* for that list.
C21_FiveOutcomesOfTheList ==
  [][IsCall("runValidation") =>
       /\ metrics' = metrics
       /\ Len(validationResults') = 5
       /\ [k \in 1..5 |-> validationResults'[k].check] = CheckOrder
       /\ \A z \in TimeZones : validationResults' = runValidation(metrics, z)]_vars

\* the configured maximum: the caller's, or 25
ConfiguredMax ==
  IF options.maxPages.given THEN options.maxPages.n ELSE 25

\* the first k of the pages 1, 2, ... in their order
FirstPages(k) == [i \in 1..k |-> i]

Called(fn) == \E i \in 1..Len(calls) : calls[i].fn = fn

Stage4Fns ==
  {"applyLeaseTypeCorrection", "applyEscalationCorrection", "runValidation"}

\* C23: with the skip-extraction flag the extractor is never called and an
\* output has no records, no validation outcomes and no corrector or
\* validation call, while the renderer and (unless the type is forced) the
\* classifier were called; in every run a corrector or the validation is
\* called only on a non-empty record list, and an output with records
\* comes after all three were called.
C23_SkipExtraction ==
  /\ options.skipExtraction =>
       /\ ~Called("extractLeaseData")
       /\ \A fn \in Stage4Fns : ~Called(fn)
       /\ result.kind = "output" =>
            /\ result.metrics = <<>>
            /\ result.validation_results = <<>>
            /\ Called("pdfToImages")
            /\ Called("detectLeaseType") <=> options.forceDocumentType = ""
  /\ \A fn \in Stage4Fns : Called(fn) => Len(metrics) > 0
  /\ result.kind = "output" =>
       \A fn \in Stage4Fns : Called(fn) <=> Len(result.metrics) > 0

\* an output of a run with the skip flag, after rendering and classification
C23_Witness ==
  /\ options.skipExtraction
  /\ result.kind = "output"
  /\ Fns = << "pdfToImages", "detectLeaseType" >>
  /\ result.page_count > 0
  /\ result.document_type # ""

\* the five subtype codes in their priority order
CodePriority == << "NNN", "FSG", "MG", "IG", "ANN" >>

CodeChars(code) ==
  CASE code = "NNN" -> << "N", "N", "N" >>
    [] code = "FSG" -> << "F", "S", "G" >>
    [] code = "MG" -> << "M", "G" >>
    [] code = "IG" -> << "I", "G" >>
    [] code = "ANN" -> << "A", "N", "N" >>

\* code occurs in text when case is ignored
Occurs(code, text) ==
  \E i \in 0..(Len(text) - Len(CodeChars(code))) :
    \A j \in 1..Len(CodeChars(code)) :
      Mapped(text[i + j], Lowers, Uppers) = CodeChars(code)[j]

\* C24: the classifier returns one of the five codes: the first in the order
\* NNN, FSG, MG, IG, ANN that occurs in the upper-cased response, FSG when
\* none occurs; the model's text, model id and latency are returned as they
\* came.
C24_ClassifierResult ==
  pc = "detected" =>
    /\ \E k \in 1..5 : typeResult.documentType = CodePriority[k]
    /\ \A k \in 1..5 :
         (/\ Occurs(CodePriority[k], response.content)
          /\ \A j \in 1..(k - 1) : ~Occurs(CodePriority[j], response.content))
         => typeResult.documentType = CodePriority[k]
    /\ (\A k \in 1..5 : ~Occurs(CodePriority[k], response.content))
         => typeResult.documentType = "FSG"
    /\ typeResult.rawResponse = response.content
    /\ typeResult.model = response.model
    /\ typeResult.latencyMs = response.latencyMs

\* the answer " mG " in mixed case and with blanks around it: MG is
\* returned together with the text as it came
C24_Witness ==
  /\ pc = "detected"
  /\ response.content = << " ", "m", "G", " " >>
  /\ typeResult.documentType = "MG"
  /\ typeResult.rawResponse = << " ", "m", "G", " " >>

\* what instance i returns when it runs alone in a process with environment
\* env and receives the answers that run received
AloneOutcome(run, env) ==
  LET own == loadConfig(env)
      name == basename(run.doc)
      alone == [NewRun(run.doc) EXCEPT
                  !.pages = run.pages,
                  !.typeAnswer = run.typeAnswer,
                  !.documentType = documentTypeOf(run.typeAnswer),
                  !.visionModel = own.models.vision,
                  !.extractionModel = own.models.extraction,
                  !.extractAnswer = run.extractAnswer]
  IN IF isAmendment(name)
     THEN [NoResult EXCEPT
             !.kind = "skipped",
             !.reason = "Amendment detected - amendment processing not yet implemented",
             !.filename = name]
     ELSE IF run.result.message \in
               {"pdfToImages failed", "No pages extracted from PDF",
                "classification failed", "extraction failed"}
     THEN [NoResult EXCEPT !.kind = "thrown", !.message = run.result.message]
     ELSE Finished(alone, parseExtractionResponse(ResponseOf(run.extractAnswer),
                                                  name)).result

\* C25: instances of runPipeline that interleave at their await points share
\* only the configuration singleton, which is assigned at most once, to the
\* configuration of the process environment; every finished instance returns
\* what it returns when it runs alone with the same answers.
C25_RunsDoNotInterfere ==
  /\ config.assignments <= 1
  /\ config.value \in {<<>>, loadConfig(config.env)}
  /\ \A i \in 1..NumRuns :
       /\ runs[i].doc = RunDocs[i]
       /\ runs[i].visionModel \in {"", loadConfig(config.env).models.vision}
       /\ runs[i].pc = "done"
            => runs[i].result = AloneOutcome(runs[i], config.env)

\* the first instance has returned its output while the second, which has
\* read the configuration too, still awaits its extraction answer
C25_Witness ==
  /\ runs[1].pc = "done"
  /\ runs[1].result.kind = "output"
  /\ runs[1].result.model = "claude-x"
  /\ runs[1].result.document_type = "MG"
  /\ runs[2].pc = "extracting"
  /\ runs[2].documentType = "NNN"
  /\ config.assignments = 1

\* C26: the overrides_applied number stored on submit is the number of
\* records whose value the reviewer overrode and did not revert; overrides
\* written by the correctors or auto-calculated by the page are not counted.
C26_OverridesAppliedCountsReviewerChanges ==
  stored # <<>> => stored.overrides_applied = Cardinality(stored.changed)

\* the stored number is the number of records with a non-null override
C26_CountsEveryOverride ==
  stored # <<>> =>
    stored.overrides_applied =
      Cardinality({k \in 1..Len(stored.metrics) : stored.metrics[k].override # Null})

\* C27: the page shows records for review only from the response of the
\* most recent upload that has not been cancelled; the late response of a
\* request cancelled by handleReset has no effect.
C27_OnlyLatestUploadReviewed ==
  (state = "reviewing" /\ pipelineOutput # <<>>) =>
    /\ latest # 0
    /\ pipelineOutput = OutputOf(requests[latest].file, tz)

\* the page recalculated the expiration in this step
Recalculated ==
  /\ IsCall("handleOverride")
  /\ \E k \in 1..Len(metrics) :
       /\ Named(metrics[k], "lease_expiration_date")
       /\ metrics'[k] # metrics[k]
       /\ \E j \in 1..Len(metrics'[k].flags.items) :
            AutoCalculated(metrics'[k].flags.items[j])

DateOutcomeNext == validationResults'[3]

\* C30: whenever handleOverride recalculates lease_expiration_date from the
\* start date and the term, the live date-arithmetic outcome on the
\* resulting records is PASS.
C30_RecalculatedExpirationPasses ==
  [][Recalculated =>
       /\ DateOutcomeNext.check = "date_arithmetic"
       /\ DateOutcomeNext.status = "PASS"]_vars

\* runValidation has just been called on the records the escalation
\* corrector returned, as runPipeline does
ValidatedAfterCorrection ==
  /\ pc = "validated"
  /\ Len(calls) >= 2
  /\ calls[Len(calls) - 1].fn = "applyEscalationCorrection"
  /\ LastCall = "runValidation"

\* C28: after the escalation corrector has run, the escalation consistency
\* outcome is FLAG for a fixed-dollar or stepped kind only if the effective
\* rent_escalations value is at least 0.20 and below 0.50.
C28_DollarFlagOnlyBetweenThresholds ==
  (ValidatedAfterCorrection /\ DollarKind(metrics) /\ StatusOf(4) = "FLAG") =>
    LET v == ToNumber(Effective(metrics, "rent_escalations")) IN
    XGe(v, Fin(1, 5)) /\ XLt(v, Fin(1, 2))

\* a dollar kind with value 0.3 on an annual rate of 10 is left alone by the
\* corrector and flagged
C28_Witness ==
  /\ ValidatedAfterCorrection
  /\ DollarKind(metrics)
  /\ Effective(metrics, "rent_escalations") = JNumQ(3, 10)
  /\ Effective(metrics, "suite_sf") = JNum(11400)
  /\ StatusOf(4) = "FLAG"

\* the effective values of document_type and lease_type in list ms are equal
SubtypesAgree(ms) == Effective(ms, "document_type") = Effective(ms, "lease_type")

HasBothSubtypes(ms) ==
  /\ Effective(ms, "document_type") # Undef
  /\ Effective(ms, "lease_type") # Undef

\* C29: when the effective values of document_type and lease_type are equal
\* before applyLeaseTypeCorrection, they are equal after it.
C29_CorrectorKeepsSubtypesEqual ==
  [][(IsCall("applyLeaseTypeCorrection") /\ pc' # "done"
        /\ HasBothSubtypes(metrics) /\ SubtypesAgree(metrics))
       => SubtypesAgree(metrics')]_vars

====
